---- MODULE Spec2Model ----
(***************************************************************************)
(* Model of the orbitlab gravity simulation (lib/gravity/simulation.ts and *)
(* the Star class of lib/gravity/interaction.ts).                          *)
(*                                                                         *)
(* Number representation.  The program computes in IEEE doubles; the model *)
(* computes in integers and rounds every division and square root to the   *)
(* nearest integer, as the floating point unit rounds to the nearest       *)
(* representable value.  Units: positions in px, velocities in px/s,       *)
(* accelerations in px/s^2, masses in mass units, times in milliseconds    *)
(* (the program's seconds times 1000), fractions (damping, easing) in      *)
(* percent or permille as noted at each definition.                        *)
(***************************************************************************)
EXTENDS Integers, Sequences, FiniteSets, TLC

\* ------------------------------------------------------------------------
\* Bounds of the model
\* ------------------------------------------------------------------------
\* number of fixed steps the world may execute in one behaviour
MaxSteps == 2
\* number of startCreation calls accepted for modelling in one behaviour
MaxGestures == 2
\* number of clock advances in one behaviour
MaxTicks == 2
\* number of fixed steps executed between the calls of gestures
MaxGestureSteps == 1
\* number of points one gesture may hold in cursorHistory
MaxHistory == 2
\* number of generations a GeneticAlgorithm is taken through
MaxGenerations == 2
\* number of iterations of the loop of evaluateUniverse
SampleSteps == 3

\* ------------------------------------------------------------------------
\* Program constants
\* ------------------------------------------------------------------------
\* const fixedDt = 0.01 (seconds), here in milliseconds
fixedDt == 10
\* hard speed ceiling of the integrator outside ORBIT_PLAYGROUND (px/s)
SpeedCap == 1000
\* canvas size of the modelled world (px)
width == 64
height == 64

ORBIT_PLAYGROUND == "ORBIT_PLAYGROUND"
N_BODY_CHAOS == "N_BODY_CHAOS"
PhysicsMode == {ORBIT_PLAYGROUND, N_BODY_CHAOS}

\* value of an optional field that is not set (undefined) / of null
None == -1

\* ------------------------------------------------------------------------
\* Arithmetic helpers (rounding as the floating point unit does)
\* ------------------------------------------------------------------------
Abs(a) == IF a < 0 THEN -a ELSE a

\* a / b rounded to the nearest integer, b > 0
RDiv(a, b) ==
  IF a >= 0 THEN (2 * a + b) \div (2 * b)
  ELSE -((2 * (-a) + b) \div (2 * b))

RECURSIVE SqrtSearch(_, _, _)
\* largest r in lo..hi with r*r <= n
SqrtSearch(n, lo, hi) ==
  IF lo >= hi THEN lo
  ELSE LET mid == (lo + hi + 1) \div 2
       IN IF mid * mid <= n THEN SqrtSearch(n, mid, hi)
          ELSE SqrtSearch(n, lo, mid - 1)

\* f or f + 1, whichever is nearer to the root of n, for f the root
\* rounded down
nearestRoot(n, f) == IF n - f * f > f THEN f + 1 ELSE f

\* Math.sqrt(n) rounded to the nearest integer
Sqrt(n) == nearestRoot(n, SqrtSearch(n, 0, 46340))

\* ------------------------------------------------------------------------
\* Times in seconds as JavaScript numbers (IEEE-754 doubles)
\* ------------------------------------------------------------------------
\* timeAccumulator, deltaTime and the 0.01 of update() are doubles.  Every
\* value that occurs is a whole multiple of 2^-60 s below 2^57 of them, held
\* as two limbs: hi * Limb + lo.
Limb == 2 ^ 30

Zero == [hi |-> 0, lo |-> 0]

\* the double nearest to ms / 1000
seconds(ms) ==
  CASE ms = 4 -> [hi |-> 4294967, lo |-> 317827580]
    [] ms = 10 -> [hi |-> 10737418, lo |-> 257698038]
    [] ms = 20 -> [hi |-> 21474836, lo |-> 515396076]
    [] ms = 40 -> [hi |-> 42949672, lo |-> 1030792152]
    [] ms = 100 -> [hi |-> 107374182, lo |-> 429496736]

\* a >= b
atLeast(a, b) == a.hi > b.hi \/ (a.hi = b.hi /\ a.lo >= b.lo)

carried(hi, lo) ==
  IF lo >= Limb THEN [hi |-> hi + 1, lo |-> lo - Limb] ELSE [hi |-> hi, lo |-> lo]

\* a + b and a - b (a >= b) as real numbers
exactPlus(a, b) == carried(a.hi + b.hi, a.lo + b.lo)

exactMinus(a, b) ==
  IF a.lo >= b.lo THEN [hi |-> a.hi - b.hi, lo |-> a.lo - b.lo]
  ELSE [hi |-> a.hi - b.hi - 1, lo |-> a.lo + Limb - b.lo]

\* spacing of the doubles around a value: a 53-bit significand holds values
\* below 2^53 (hi below 2^23) exactly
ulp(hi) ==
  IF hi < 8388608 THEN 1
  ELSE IF hi < 16777216 THEN 2
  ELSE IF hi < 33554432 THEN 4
  ELSE IF hi < 67108864 THEN 8
  ELSE 16

\* round to nearest, ties to even, given the spacing u and the remainder r
roundedBy(hi, lo, u, r) ==
  IF 2 * r > u \/ (2 * r = u /\ ((lo - r) \div u) % 2 = 1)
  THEN carried(hi, lo - r + u)
  ELSE [hi |-> hi, lo |-> lo - r]

roundedTo(v, u) == roundedBy(v.hi, v.lo, u, v.lo % u)

\* the double a real result is rounded to
rounded(v) == roundedTo(v, ulp(v.hi))

\* a + b and a - b in floating point
plus(a, b) == rounded(exactPlus(a, b))

minus(a, b) == rounded(exactMinus(a, b))

RECURSIVE wholeQuotient(_, _)
\* floor(a / b) as real numbers
wholeQuotient(a, b) ==
  IF atLeast(a, b) THEN 1 + wholeQuotient(exactMinus(a, b), b) ELSE 0

\* the 0.01 of update()
fixedStep == seconds(fixedDt)

RECURSIVE stepsDue(_)
\* number of times the loop of update() goes round from this accumulator
stepsDue(accumulator) ==
  IF atLeast(accumulator, fixedStep)
  THEN 1 + stepsDue(minus(accumulator, fixedStep))
  ELSE 0

\* ------------------------------------------------------------------------
\* Vector helpers of simulation.ts
\* ------------------------------------------------------------------------
\* minImageDelta: shortest displacement across a periodic axis
minImageDelta(d, size) ==
  IF 2 * d > size THEN d - size
  ELSE IF 2 * d < -size THEN d + size
  ELSE d

\* ------------------------------------------------------------------------
\* Star (lib/gravity/interaction.ts)
\* ------------------------------------------------------------------------
\* new Star(x, y, mass, vx, vy, radiusScale, radiusPower): the half-step
\* velocity starts equal to the velocity.  radiusPower is 1/2 throughout
\* (the constructor's default), so it is no field of the record.
NewStar(x, y, mass, vx, vy, radiusScale) ==
  [x |-> x, y |-> y, vx |-> vx, vy |-> vy, vxHalf |-> vx, vyHalf |-> vy,
   mass |-> mass, radiusScale |-> radiusScale]

\* get radius(): (mass ^ radiusPower * radiusScale) / 2 with radiusPower = 1/2
radius(s) == RDiv(Sqrt(s.mass) * s.radiusScale, 2)

\* while (x < 0) x += size; while (x >= size) x -= size
RECURSIVE wrapCoord(_, _)
wrapCoord(x, size) ==
  IF x < 0 THEN wrapCoord(x + size, size)
  ELSE IF x >= size THEN wrapCoord(x - size, size)
  ELSE x

\* vxHalf += ax * dt * 0.5; vyHalf += ay * dt * 0.5 (dt in milliseconds)
kick(s, dt, ax, ay) ==
  [s EXCEPT !.vxHalf = s.vxHalf + RDiv(ax * dt, 2000),
            !.vyHalf = s.vyHalf + RDiv(ay * dt, 2000)]

\* x += vxHalf * dt; y += vyHalf * dt
drift(s, dt) ==
  [s EXCEPT !.x = s.x + RDiv(s.vxHalf * dt, 1000),
            !.y = s.y + RDiv(s.vyHalf * dt, 1000)]

\* the half-step velocity scaled down to SpeedCap when speed is above it
scaleToCap(s, speed) ==
  IF speed > SpeedCap
  THEN [s EXCEPT !.vxHalf = RDiv(s.vxHalf * SpeedCap, speed),
                 !.vyHalf = RDiv(s.vyHalf * SpeedCap, speed)]
  ELSE s

\* speed clamp shared by both half updates, outside ORBIT_PLAYGROUND only
capSpeed(s, cfg) ==
  IF cfg.physicsMode # ORBIT_PLAYGROUND
  THEN scaleToCap(s, Sqrt(s.vxHalf * s.vxHalf + s.vyHalf * s.vyHalf))
  ELSE s

\* the damping branch of updateVelocityVerletFirstHalf
\* (velocityDamping is a percentage here)
dampingApplies(cfg) ==
  cfg.velocityDamping > 0 /\ cfg.physicsMode # ORBIT_PLAYGROUND

applyDamping(s, cfg) ==
  IF dampingApplies(cfg)
  THEN [s EXCEPT !.vxHalf = RDiv(s.vxHalf * (100 - cfg.velocityDamping), 100),
                 !.vyHalf = RDiv(s.vyHalf * (100 - cfg.velocityDamping), 100)]
  ELSE s

\* a first half without the torus wrapping
leavePosition(s, cfg) == s

\* torus wrapping of the position
wrapPosition(s, cfg) ==
  IF cfg.enableBoundaryWrapping
  THEN [s EXCEPT !.x = wrapCoord(s.x, width), !.y = wrapCoord(s.y, height)]
  ELSE s

\* Star.updateVelocityVerletFirstHalf(dt, ax, ay, width, height, config):
\* half kick, drift, damping, speed cap, wrapping, in this order
updateVelocityVerletFirstHalf(s, dt, ax, ay, cfg) ==
  wrapPosition(capSpeed(applyDamping(drift(kick(s, dt, ax, ay), dt), cfg), cfg),
               cfg)

\* a second half that leaves vx, vy as they were
keepVelocity(s) == s

\* vx = vxHalf; vy = vyHalf
setVelocity(s) == [s EXCEPT !.vx = s.vxHalf, !.vy = s.vyHalf]

\* Star.updateVelocityVerletSecondHalf(dt, ax, ay, config)
updateVelocityVerletSecondHalf(s, dt, ax, ay, cfg) ==
  setVelocity(capSpeed(kick(s, dt, ax, ay), cfg))

\* a distance that never looks across the edges
distanceToRaw(a, b, enableWrapping) ==
  Sqrt((a.x - b.x) * (a.x - b.x) + (a.y - b.y) * (a.y - b.y))

\* Star.distanceTo(other, width, height, enableWrapping)
distanceTo(a, b, enableWrapping) ==
  LET dx0 == a.x - b.x
      dy0 == a.y - b.y
      dx  == IF enableWrapping THEN minImageDelta(dx0, width) ELSE dx0
      dy  == IF enableWrapping THEN minImageDelta(dy0, height) ELSE dy0
  IN Sqrt(dx * dx + dy * dy)

\* a merge that takes the plain mean of the two velocities
mergeWithMeanVelocity(a, b, enableWrapping) ==
  NewStar(a.x, a.y, a.mass + b.mass, RDiv(a.vx + b.vx, 2),
          RDiv(a.vy + b.vy, 2), a.radiusScale)

\* Star.mergeWith(other, width, height, enableWrapping)
mergeWith(a, b, enableWrapping) ==
  LET totalMass == a.mass + b.mass
      dx0    == b.x - a.x
      dy0    == b.y - a.y
      otherX == IF enableWrapping THEN a.x + minImageDelta(dx0, width) ELSE b.x
      otherY == IF enableWrapping THEN a.y + minImageDelta(dy0, height) ELSE b.y
      comX   == RDiv(a.x * a.mass + otherX * b.mass, totalMass)
      comY   == RDiv(a.y * a.mass + otherY * b.mass, totalMass)
      newX   == IF enableWrapping THEN wrapCoord(comX, width) ELSE comX
      newY   == IF enableWrapping THEN wrapCoord(comY, height) ELSE comY
      newVx  == RDiv(a.vx * a.mass + b.vx * b.mass, totalMass)
      newVy  == RDiv(a.vy * a.mass + b.vy * b.mass, totalMass)
      rScale == IF a.mass >= b.mass THEN a.radiusScale ELSE b.radiusScale
  IN NewStar(newX, newY, totalMass, newVx, newVy, rScale)

\* ------------------------------------------------------------------------
\* GravitySimulation.step (lib/gravity/simulation.ts)
\* ------------------------------------------------------------------------
\* dx, dy from star a to star b under the boundary policy
separation(a, b, cfg) ==
  [x |-> IF cfg.enableBoundaryWrapping THEN minImageDelta(b.x - a.x, width)
         ELSE b.x - a.x,
   y |-> IF cfg.enableBoundaryWrapping THEN minImageDelta(b.y - a.y, height)
         ELSE b.y - a.y]

\* Plummer softening: r = sqrt(dx^2 + dy^2 + eps^2)
softenedDistance(d, eps) == Sqrt(d.x * d.x + d.y * d.y + eps * eps)

\* fx = dx * G * mA * mB / r^3, fy likewise; ax += fx / mA, ay += fy / mA
accelFrom(d, r, gmm, mass) ==
  [ax |-> RDiv(RDiv(d.x * gmm, r * r * r), mass),
   ay |-> RDiv(RDiv(d.y * gmm, r * r * r), mass)]

pairAccelAt(d, a, b, cfg) ==
  accelFrom(d, softenedDistance(d, cfg.softeningEpsPx),
            cfg.gravityConstant * a.mass * b.mass, a.mass)

\* acceleration of star a caused by star b: the body of the inner loop
pairAccel(a, b, cfg) == pairAccelAt(separation(a, b, cfg), a, b, cfg)

addAccel(p, q) == [ax |-> p.ax + q.ax, ay |-> p.ay + q.ay]

RECURSIVE sumAccel(_, _, _, _)
\* for (j = 0; j < stars.length; j++) { if (i === j) continue; ax += ... }
sumAccel(stars, i, j, cfg) ==
  IF j > Len(stars) THEN [ax |-> 0, ay |-> 0]
  ELSE IF i = j THEN sumAccel(stars, i, j + 1, cfg)
  ELSE addAccel(pairAccel(stars[i], stars[j], cfg),
                sumAccel(stars, i, j + 1, cfg))

\* the acceleration of star i from the positions the array holds now
acceleration(stars, i, cfg) == sumAccel(stars, i, 1, cfg)

RECURSIVE pass1(_, _, _, _, _)
RECURSIVE pass1Star(_, _, _, _, _, _)
\* body of the pass-1 loop once the acceleration a of star i is accumulated:
\* accelerations.push(a); starA.updateVelocityVerletFirstHalf(...), in place
pass1Star(stars, i, dt, cfg, accelerations, a) ==
  pass1([stars EXCEPT
           ![i] = updateVelocityVerletFirstHalf(stars[i], dt, a.ax, a.ay, cfg)],
        i + 1, dt, cfg, Append(accelerations, a))

\* Pass 1: for each i in turn, accumulate the acceleration of star i from
\* the array as it is at that moment, then update star i in place.
\* Returns the array after the pass and the accelerations that were used.
pass1(stars, i, dt, cfg, accelerations) ==
  IF i > Len(stars) THEN [stars |-> stars, accelerations |-> accelerations]
  ELSE pass1Star(stars, i, dt, cfg, accelerations, acceleration(stars, i, cfg))

RECURSIVE pass2(_, _, _, _)
RECURSIVE pass2Star(_, _, _, _, _)
\* body of the pass-2 loop once the acceleration a of star i is accumulated
pass2Star(stars, i, dt, cfg, a) ==
  pass2([stars EXCEPT
           ![i] = updateVelocityVerletSecondHalf(stars[i], dt, a.ax, a.ay, cfg)],
        i + 1, dt, cfg)

\* Pass 2: recompute the acceleration of each star and finish its velocity
pass2(stars, i, dt, cfg) ==
  IF i > Len(stars) THEN stars
  ELSE pass2Star(stars, i, dt, cfg, acceleration(stars, i, cfg))

\* distance < r1 + r2: the two stars touch
touching(a, b, cfg) ==
  distanceTo(a, b, cfg.enableBoundaryWrapping) < radius(a) + radius(b)

\* an inner loop that does not skip the indices already in toRemove
firstPartnerAmongAll(stars, i, from, toRemove, cfg) ==
  LET found == {j \in from..Len(stars) : touching(stars[i], stars[j], cfg)}
  IN IF found = {} THEN 0
     ELSE CHOOSE j \in found : \A k \in found : j <= k

RECURSIVE firstPartner(_, _, _, _, _)
\* inner loop of the merge scan: the first j >= from that is not in toRemove
\* and touches star i; 0 when the loop ends without a merge
firstPartner(stars, i, from, toRemove, cfg) ==
  IF from > Len(stars) THEN 0
  ELSE IF from \in toRemove THEN firstPartner(stars, i, from + 1, toRemove, cfg)
  ELSE IF touching(stars[i], stars[from], cfg) THEN from
  ELSE firstPartner(stars, i, from + 1, toRemove, cfg)

RECURSIVE mergeScan(_, _, _, _, _, _)
RECURSIVE mergeScanWith(_, _, _, _, _, _, _)
\* body of the outer loop once the inner loop has ended at j (0: no merge)
mergeScanWith(stars, i, j, toRemove, toAdd, pairs, cfg) ==
  IF j = 0 THEN mergeScan(stars, i + 1, toRemove, toAdd, pairs, cfg)
  ELSE mergeScan(stars, i + 1, toRemove \cup {i, j},
                 Append(toAdd, mergeWith(stars[i], stars[j],
                                         cfg.enableBoundaryWrapping)),
                 Append(pairs, <<i, j>>), cfg)

\* outer loop of the merge scan; toRemove is the set of merged indices,
\* toAdd the merged stars, pairs the index pairs merged (in scan order)
mergeScan(stars, i, toRemove, toAdd, pairs, cfg) ==
  IF i > Len(stars) THEN [toRemove |-> toRemove, toAdd |-> toAdd, pairs |-> pairs]
  ELSE IF i \in toRemove THEN mergeScan(stars, i + 1, toRemove, toAdd, pairs, cfg)
  ELSE mergeScanWith(stars, i, firstPartner(stars, i, i + 1, toRemove, cfg),
                     toRemove, toAdd, pairs, cfg)

RECURSIVE keepStars(_, _, _)
\* stars.splice(index, 1) for every index of toRemove: the others, in order
keepStars(stars, i, toRemove) ==
  IF i > Len(stars) THEN << >>
  ELSE IF i \in toRemove THEN keepStars(stars, i + 1, toRemove)
  ELSE << stars[i] >> \o keepStars(stars, i + 1, toRemove)

\* splice the merged indices out, then this.stars.push(...toAdd)
removeAndAppend(stars, scan) ==
  [stars |-> keepStars(stars, 1, scan.toRemove) \o scan.toAdd,
   pairs |-> scan.pairs, toAdd |-> scan.toAdd]

\* splice the merged indices out and append nothing
removeOnly(stars, scan) ==
  [stars |-> keepStars(stars, 1, scan.toRemove),
   pairs |-> scan.pairs, toAdd |-> scan.toAdd]

\* a merge resolution that removes the merged pairs and appends nothing
resolveMergesWithoutAppend(stars, cfg) ==
  removeOnly(stars, mergeScan(stars, 1, {}, << >>, << >>, cfg))

\* the merge resolution of step: scan, remove, append
resolveMerges(stars, cfg) ==
  removeAndAppend(stars, mergeScan(stars, 1, {}, << >>, << >>, cfg))

\* if (this.config.enableMerging) { ... }
mergeStep(stars, cfg) ==
  IF cfg.enableMerging THEN resolveMerges(stars, cfg)
  ELSE [stars |-> stars, pairs |-> << >>, toAdd |-> << >>]

\* what a step did (start: the array at entry; accelerations: those used in
\* pass 1; integrated: the array after pass 2; pairs/toAdd: the merges;
\* result: the array the step leaves)
stepRecord(start, accelerations, integrated, merged, cfg) ==
  [start |-> start, accelerations |-> accelerations,
   damped |-> dampingApplies(cfg) /\ Len(start) > 0,
   integrated |-> integrated, pairs |-> merged.pairs, toAdd |-> merged.toAdd,
   result |-> merged.stars, config |-> cfg]

stepAfterPass2(start, accelerations, integrated, cfg) ==
  stepRecord(start, accelerations, integrated, mergeStep(integrated, cfg), cfg)

RECURSIVE pass2Reusing(_, _, _, _, _)
\* a pass 2 that finishes each velocity with the acceleration of pass 1
pass2Reusing(stars, accelerations, i, dt, cfg) ==
  IF i > Len(stars) THEN stars
  ELSE pass2Reusing(
         [stars EXCEPT
            ![i] = updateVelocityVerletSecondHalf(stars[i], dt, accelerations[i].ax,
                                                  accelerations[i].ay, cfg)],
         accelerations, i + 1, dt, cfg)

\* a step whose pass 2 recomputes nothing
stepReusingAccelerations(start, p1, dt, cfg) ==
  stepAfterPass2(start, p1.accelerations,
                 pass2Reusing(p1.stars, p1.accelerations, 1, dt, cfg), cfg)

stepAfterPass1(start, p1, dt, cfg) ==
  stepAfterPass2(start, p1.accelerations, pass2(p1.stars, 1, dt, cfg), cfg)

\* step(dt): pass 1, pass 2, merge resolution; the record of the step
step(stars, dt, cfg) ==
  stepAfterPass1(stars, pass1(stars, 1, dt, cfg, << >>), dt, cfg)

\* the loop's result after at most one step
onceStepped(rec, timeAccumulator, log) ==
  [stars |-> rec.result, timeAccumulator |-> minus(timeAccumulator, fixedStep),
   log |-> Append(log, rec)]

\* a loop that runs at most one step per call ("if" in place of "while")
runStepsOnce(stars, timeAccumulator, cfg, log) ==
  IF atLeast(timeAccumulator, fixedStep)
  THEN onceStepped(step(stars, fixedDt, cfg), timeAccumulator, log)
  ELSE [stars |-> stars, timeAccumulator |-> timeAccumulator, log |-> log]

RECURSIVE runSteps(_, _, _, _)
RECURSIVE runStepsAfter(_, _, _, _)
\* the rest of the loop after a step that left the record rec
\* (the step is evaluated before the loop goes round again)
runStepsAfter(rec, timeAccumulator, cfg, log) ==
  CASE Len(rec.result) >= 0 /\ Len(log) >= 0 ->
    runSteps(rec.result, minus(timeAccumulator, fixedStep), cfg, Append(log, rec))

\* while (timeAccumulator >= fixedDt) { step(fixedDt); timeAccumulator -= fixedDt }
\* Returns the stars, the accumulator and the records of the steps executed.
runSteps(stars, timeAccumulator, cfg, log) ==
  IF atLeast(timeAccumulator, fixedStep)
  THEN runStepsAfter(step(stars, fixedDt, cfg), timeAccumulator, cfg, log)
  ELSE [stars |-> stars, timeAccumulator |-> timeAccumulator, log |-> log]

\* ------------------------------------------------------------------------
\* Energy diagnostics (lib/gravity/simulation.ts)
\* ------------------------------------------------------------------------
\* 0.5 * star.mass * (vx^2 + vy^2)
kineticOf(s) == RDiv(s.mass * (s.vx * s.vx + s.vy * s.vy), 2)

RECURSIVE kineticEnergy(_, _)
\* for (const star of this.stars) kinetic += 0.5 * star.mass * v2
kineticEnergy(stars, i) ==
  IF i > Len(stars) THEN 0
  ELSE kineticOf(stars[i]) + kineticEnergy(stars, i + 1)

\* (G * mA * mB) / r with the softened, wrapped distance r
pairPotential(a, b, cfg) ==
  RDiv(cfg.gravityConstant * a.mass * b.mass,
       softenedDistance(separation(a, b, cfg), cfg.softeningEpsPx))

RECURSIVE potentialEnergy(_, _, _, _)
\* for (i) for (j = i + 1) potential -= G * mA * mB / r
potentialEnergy(stars, i, j, cfg) ==
  IF i > Len(stars) THEN 0
  ELSE IF j > Len(stars) THEN potentialEnergy(stars, i + 1, i + 2, cfg)
  ELSE potentialEnergy(stars, i, j + 1, cfg) - pairPotential(stars[i], stars[j], cfg)

\* computeTotalEnergy()
computeTotalEnergy(stars, cfg) ==
  IF Len(stars) = 0 THEN 0
  ELSE kineticEnergy(stars, 1) + potentialEnergy(stars, 1, 2, cfg)

\* history keeps the last 100 totals, mergeEvents the last 50 events
HistoryCap == 100
MergeEventsCap == 50

\* an energyStats object; lastEnergyBeforeMerge is a sequence of 0 (null) or 1
EnergyStats(kinetic, potential, total, history) ==
  [kinetic |-> kinetic, potential |-> potential, total |-> total,
   history |-> history, trend |-> "stable", mergeEvents |-> << >>,
   integratorDrift |-> 0, lastEnergyBeforeMerge |-> << >>]

\* !this.energyStats.lastEnergyBeforeMerge: null, or the number 0
unset(lastEnergyBeforeMerge) ==
  lastEnergyBeforeMerge = << >> \/ lastEnergyBeforeMerge[1] = 0

\* step, before the merge scan: energyPreMerge
energyPreMergeOf(stats, rec) ==
  IF stats # << >> THEN stats[1].total
  ELSE computeTotalEnergy(rec.integrated, rec.config)

\* step, before the merge scan: if (!lastEnergyBeforeMerge) it becomes energyPreMerge
baselined(stats, energyPreMerge) ==
  IF stats # << >> /\ unset(stats[1].lastEnergyBeforeMerge)
  THEN << [stats[1] EXCEPT !.lastEnergyBeforeMerge = << energyPreMerge >>] >>
  ELSE stats

\* mergeEvents.push(event); if (length > 50) shift()
pushEvent(events, event) ==
  IF Len(events) + 1 > MergeEventsCap THEN Tail(Append(events, event))
  ELSE Append(events, event)

\* step, after a merge: the event is recorded, the drift since the last
\* baseline is added, and the post-merge energy becomes the baseline
withMergeEvent(st, energyPreMerge, energyPostMerge) ==
  [st EXCEPT
     !.mergeEvents = pushEvent(@, [frame |-> Len(st.history),
                                   energyPreMerge |-> energyPreMerge,
                                   energyPostMerge |-> energyPostMerge,
                                   deltaEnergy |-> energyPostMerge - energyPreMerge]),
     !.integratorDrift = IF st.lastEnergyBeforeMerge # << >>
                         THEN @ + (energyPreMerge - st.lastEnergyBeforeMerge[1])
                         ELSE @,
     !.lastEnergyBeforeMerge = << energyPostMerge >>]

\* the object the merge tracking writes to: this.energyStats, or a new one
statsOrNew(stats) ==
  IF stats # << >> THEN stats[1] ELSE EnergyStats(0, 0, 0, << >>)

\* step, after the merge resolution: if (toRemove.size > 0 && ...) { ... }
mergeTracked(stats, rec, energyPreMerge) ==
  IF rec.pairs = << >> THEN stats
  ELSE << withMergeEvent(statsOrNew(stats), energyPreMerge,
                         computeTotalEnergy(rec.result, rec.config)) >>

trackedWith(stats, rec, energyPreMerge) ==
  mergeTracked(baselined(stats, energyPreMerge), rec, energyPreMerge)

\* what the step recorded in rec does to this.energyStats
trackedStep(stats, rec) ==
  IF rec.config.enableMerging
  THEN trackedWith(stats, rec, energyPreMergeOf(stats, rec))
  ELSE stats

RECURSIVE trackedThrough(_, _, _)
\* this.energyStats after the steps log[k], log[k + 1], ...
trackedThrough(stats, log, k) ==
  IF k > Len(log) THEN stats
  ELSE trackedThrough(trackedStep(stats, log[k]), log, k + 1)

\* this.energyStats.history.push(total); if (length > 100) shift()
pushTotal(history, total) ==
  IF Len(history) + 1 > HistoryCap THEN Tail(Append(history, total))
  ELSE Append(history, total)

\* updateEnergyStats: the drift added at a sample
driftAt(st, total) ==
  IF st.lastEnergyBeforeMerge # << >> THEN total - st.lastEnergyBeforeMerge[1]
  ELSE IF Len(st.history) > 0 THEN total - st.history[Len(st.history)]
  ELSE 0

\* changePercent = (recent - initial) / |initial| against -0.01 and 0.01
trendOf(initial, recent) ==
  IF (recent - initial) * 100 < -Abs(initial) THEN "decreasing"
  ELSE IF (recent - initial) * 100 > Abs(initial) THEN "increasing"
  ELSE "stable"

\* updateEnergyStats: trend detection once history holds more than 10 totals
withTrend(st) ==
  IF Len(st.history) > 10
  THEN [st EXCEPT !.trend = trendOf(st.history[1], st.history[Len(st.history)])]
  ELSE st

\* updateEnergyStats on an existing object
resampled(st, total, kinetic) ==
  withTrend([st EXCEPT !.integratorDrift = @ + driftAt(st, total),
                       !.kinetic = kinetic,
                       !.potential = total - kinetic,
                       !.total = total,
                       !.history = pushTotal(@, total)])

sampled(stats, total, kinetic) ==
  IF stats = << >>
  THEN << EnergyStats(kinetic, total - kinetic, total, << total >>) >>
  ELSE << resampled(stats[1], total, kinetic) >>

\* updateEnergyStats()
updateEnergyStats(stats, stars, cfg) ==
  IF Len(stars) = 0 THEN << >>
  ELSE sampled(stats, computeTotalEnergy(stars, cfg), kineticEnergy(stars, 1))

\* ------------------------------------------------------------------------
\* Configurations and inputs the model draws from
\* ------------------------------------------------------------------------
\* A GravityConfig with the fields the simulation reads.  Fractions are
\* percentages (velocityDamping, launchStrength, massResistanceFactor,
\* angularGuidanceStrength); holdToMaxSeconds is in milliseconds.
BaseConfig ==
  [physicsMode |-> ORBIT_PLAYGROUND,
   velocityDamping |-> 0,
   maxForceMagnitude |-> 1000,
   gravityConstant |-> 5000,
   softeningEpsPx |-> 2,
   maxStars |-> 3,
   enableMerging |-> TRUE,
   mergeStopMass |-> None,
   enableBoundaryWrapping |-> TRUE,
   radiusScale |-> 2,
   minMass |-> 4,
   maxMass |-> 16,
   holdToMaxSeconds |-> 5000,
   flickWindowMs |-> 70,
   flickS0 |-> 400,
   flickVmax |-> 550,
   launchStrength |-> 90,
   massResistanceFactor |-> 30,
   angularGuidanceStrength |-> 60,
   orbitalCenterSearchRadius |-> 30]

\* configurations a world is constructed with
InitConfigs ==
  {BaseConfig,
   [BaseConfig EXCEPT !.mergeStopMass = 30],
   [BaseConfig EXCEPT !.enableBoundaryWrapping = FALSE,
                      !.physicsMode = N_BODY_CHAOS, !.velocityDamping = 10],
   [BaseConfig EXCEPT !.enableMerging = FALSE, !.velocityDamping = 10]}

\* the values a caller of updateConfig changes in the configuration it passes
ConfigChanges ==
  [physicsMode : PhysicsMode, velocityDamping : {0, 10},
   maxForceMagnitude : {0, 1000}]

\* star layouts a world starts from (loaded universes)
S(x, y, mass, vx, vy) == NewStar(x, y, mass, vx, vy, 2)

InitStars ==
  {<< >>,
   \* two stars approaching each other: they touch after a step
   << S(20, 20, 16, 200, 0), S(30, 20, 16, -100, 0) >>,
   \* stars 1 and 3 touch, stars 2 and 3 touch, stars 1 and 2 do not
   << S(10, 30, 16, 0, 0), S(22, 30, 16, 0, 0), S(16, 30, 16, 0, 0) >>,
   \* a heavy star and a light fast one that crosses the boundary
   << S(60, 10, 36, 300, 100), S(4, 12, 9, -1200, 0) >>,
   \* two stars that touch across the right edge, one leaving by the bottom
   << S(62, 63, 16, 100, 200), S(2, 1, 16, -100, 0) >>}

\* real time steps passed to update, in milliseconds
DeltaTimes == {4, 10, 20}

\* ------------------------------------------------------------------------
\* Launch velocity helpers (lib/gravity/simulation.ts)
\* ------------------------------------------------------------------------
dot(v1, v2) == v1.x * v2.x + v1.y * v2.y

length(v) == Sqrt(v.x * v.x + v.y * v.y)

\* v / len in thousandths; (0, 0) when len is 0
unit(v, len) ==
  IF len = 0 THEN [x |-> 0, y |-> 0]
  ELSE [x |-> RDiv(v.x * 1000, len), y |-> RDiv(v.y * 1000, len)]

\* normalize(v): the unit vector, in thousandths; (0, 0) for the zero vector
normalize(v) == unit(v, length(v))

\* displacement from position to a star under the boundary policy
deltaTo(position, star, enableWrapping) ==
  LET dx0 == star.x - position.x
      dy0 == star.y - position.y
  IN [x |-> IF enableWrapping THEN minImageDelta(dx0, width) ELSE dx0,
      y |-> IF enableWrapping THEN minImageDelta(dy0, height) ELSE dy0]

\* if (distance < searchRadius && distance < nearestDistance) { nearest = star }
closer(best, i, distance, searchRadius) ==
  IF distance < searchRadius /\ (best.index = 0 \/ distance < best.distance)
  THEN [index |-> i, distance |-> distance]
  ELSE best

RECURSIVE nearestStar(_, _, _, _, _, _)
\* first loop of findOrbitalCenter: index of the closest star nearer than
\* searchRadius (the first of equally close ones), 0 when there is none
nearestStar(position, stars, i, searchRadius, enableWrapping, best) ==
  IF i > Len(stars) THEN best.index
  ELSE nearestStar(position, stars, i + 1, searchRadius, enableWrapping,
                   closer(best, i,
                          length(deltaTo(position, stars[i], enableWrapping)),
                          searchRadius))

\* totalMass += star.mass; weightedX += (position.x + dx) * star.mass; ...
addWeighted(sum, position, d, star) ==
  [totalMass |-> sum.totalMass + star.mass,
   weightedX |-> sum.weightedX + (position.x + d.x) * star.mass,
   weightedY |-> sum.weightedY + (position.y + d.y) * star.mass]

\* the nearest star and every star nearer than searchRadius are nearby
nearby(i, nearest, d, searchRadius) == i = nearest \/ length(d) < searchRadius

weightedWith(sum, position, stars, i, nearest, d, searchRadius) ==
  IF nearby(i, nearest, d, searchRadius)
  THEN addWeighted(sum, position, d, stars[i])
  ELSE sum

RECURSIVE weightedSum(_, _, _, _, _, _)
\* second and third loop of findOrbitalCenter: mass and mass-weighted
\* position of the nearest star and of every star nearer than searchRadius
weightedSum(position, stars, i, nearest, searchRadius, enableWrapping) ==
  IF i > Len(stars) THEN [totalMass |-> 0, weightedX |-> 0, weightedY |-> 0]
  ELSE weightedWith(weightedSum(position, stars, i + 1, nearest, searchRadius,
                                enableWrapping),
                    position, stars, i, nearest,
                    deltaTo(position, stars[i], enableWrapping), searchRadius)

\* the result of findOrbitalCenter given the nearest star and the sums;
\* found = FALSE stands for the null result
centerOf(position, nearest, w) ==
  IF nearest = 0 \/ w.totalMass = 0
  THEN [found |-> FALSE, center |-> position, totalMass |-> 0]
  ELSE [found |-> TRUE,
        center |-> [x |-> RDiv(w.weightedX, w.totalMass),
                    y |-> RDiv(w.weightedY, w.totalMass)],
        totalMass |-> w.totalMass]

centerNear(position, stars, nearest, searchRadius, enableWrapping) ==
  centerOf(position, nearest,
           weightedSum(position, stars, 1, nearest, searchRadius, enableWrapping))

\* findOrbitalCenter(position, stars, searchRadius, width, height, wrapping)
findOrbitalCenter(position, stars, searchRadius, enableWrapping) ==
  centerNear(position, stars,
             nearestStar(position, stars, 1, searchRadius, enableWrapping,
                         [index |-> 0, distance |-> 0]),
             searchRadius, enableWrapping)

\* tHat = (-rHat.y, rHat.x)
tangent(rHat) == [x |-> -rHat.y, y |-> rHat.x]

\* tangentialSign = vTangential >= 0 ? 1 : -1
signOf(vTangential) == IF vTangential >= 0 THEN 1 ELSE -1

\* vHat * (1 - guidanceStrength) + tHat * tangentialSign * guidanceStrength
blendDirection(vHat, tHat, tangentialSign, guidanceStrength) ==
  [x |-> RDiv(vHat.x * (100 - guidanceStrength)
              + tangentialSign * tHat.x * guidanceStrength, 100),
   y |-> RDiv(vHat.y * (100 - guidanceStrength)
              + tangentialSign * tHat.y * guidanceStrength, 100)]

\* scale(desiredDir, speed), desiredDir in thousandths
withSpeed(desiredDir, speed) ==
  [x |-> RDiv(desiredDir.x * speed, 1000), y |-> RDiv(desiredDir.y * speed, 1000)]

\* a guidance that scales the blended direction without normalising it
guidedAlongBlend(velocity, speed, tHat, guidanceStrength) ==
  withSpeed(blendDirection(normalize(velocity), tHat,
                           signOf(dot(velocity, tHat)), guidanceStrength),
            speed)

guidedAlong(velocity, speed, tHat, guidanceStrength) ==
  withSpeed(normalize(blendDirection(normalize(velocity), tHat,
                                     signOf(dot(velocity, tHat)),
                                     guidanceStrength)),
            speed)

\* (EPS is below the resolution of the model, so speed < EPS and rLen < EPS
\* are speed = 0 and rLen = 0)
rotateAbout(r, rLen, velocity, speed, guidanceStrength) ==
  IF speed = 0 \/ rLen = 0 THEN velocity
  ELSE guidedAlong(velocity, speed, tangent(unit(r, rLen)), guidanceStrength)

rotateFrom(r, velocity, guidanceStrength) ==
  rotateAbout(r, length(r), velocity, length(velocity), guidanceStrength)

\* rotateVelocityTowardTangential(position, center, velocity, guidanceStrength)
\* (guidanceStrength in percent)
rotateVelocityTowardTangential(position, center, velocity, guidanceStrength) ==
  rotateFrom([x |-> position.x - center.x, y |-> position.y - center.y],
             velocity, guidanceStrength)

\* Math.exp(-q / 8) in thousandths, for q = 0 .. 16
ExpNegEighths ==
  << 1000, 882, 779, 687, 607, 535, 472, 417, 368, 325, 287, 253, 223, 197,
     174, 153, 135 >>

\* Math.exp(-rawSpeed / s0) in thousandths: the exponent is rounded to
\* eighths, and exponents beyond -2 take the value at -2
expNeg(rawSpeed, s0) ==
  LET q == RDiv(rawSpeed * 8, s0)
  IN ExpNegEighths[(IF q > 16 THEN 16 ELSE q) + 1]

\* compressSpeed(rawSpeed, s0, vmax) = vmax * (1 - exp(-rawSpeed / s0))
compressSpeed(rawSpeed, s0, vmax) ==
  RDiv(vmax * (1000 - expNeg(rawSpeed, s0)), 1000)

\* Math.pow(t, 0.7) in thousandths, for t = 0/10 .. 10/10
Pow07Tenths == << 0, 200, 324, 431, 527, 616, 699, 779, 855, 929, 1000 >>

\* eased = Math.pow(Math.min(1, holdDuration / holdToMaxSeconds), 0.7), in
\* thousandths; t is rounded down to tenths
eased(holdDuration, holdToMaxSeconds) ==
  LET t == (holdDuration * 10) \div holdToMaxSeconds
  IN Pow07Tenths[(IF t > 10 THEN 10 ELSE t) + 1]

RECURSIVE maxMassOf(_, _)
\* Math.floor(Math.max(...stars.map(s => s.mass))); masses are whole numbers
maxMassOf(stars, i) ==
  IF i > Len(stars) THEN 0
  ELSE LET rest == maxMassOf(stars, i + 1)
       IN IF stars[i].mass > rest THEN stars[i].mass ELSE rest

RECURSIVE flickSums(_, _)
\* the loop over flickHistory: sums of the per-segment rates (px/s) and of
\* the segment durations, over the segments with dt > 0
flickSums(h, i) ==
  IF i > Len(h) THEN [totalDx |-> 0, totalDy |-> 0, totalDt |-> 0]
  ELSE LET rest == flickSums(h, i + 1)
           dt == h[i].time - h[i - 1].time
       IN IF dt > 0
          THEN [totalDx |-> rest.totalDx + RDiv((h[i].x - h[i - 1].x) * 1000, dt),
                totalDy |-> rest.totalDy + RDiv((h[i].y - h[i - 1].y) * 1000, dt),
                totalDt |-> rest.totalDt + dt]
          ELSE rest

\* cap of the raw release speed in finishCreation (px/s)
MAX_RELEASE_SPEED == 550

\* rawVx = totalDx / (flickHistory.length - 1), rawVy likewise
averageRate(sums, n) ==
  [x |-> RDiv(sums.totalDx, n - 1), y |-> RDiv(sums.totalDy, n - 1)]

\* if (rawSpeed > MAX_RELEASE_SPEED) { scale the raw velocity down to it }
cappedRelease(raw, rawSpeed) ==
  IF rawSpeed > MAX_RELEASE_SPEED
  THEN [x |-> RDiv(raw.x * MAX_RELEASE_SPEED, rawSpeed),
        y |-> RDiv(raw.y * MAX_RELEASE_SPEED, rawSpeed),
        speed |-> MAX_RELEASE_SPEED]
  ELSE [x |-> raw.x, y |-> raw.y, speed |-> rawSpeed]

\* vx = direction.x * compressedSpeed * launchStrength, vy likewise
\* (launchStrength in percent)
launch(release, compressedSpeed, launchStrength) ==
  [x |-> RDiv(release.x * compressedSpeed * launchStrength, release.speed * 100),
   y |-> RDiv(release.y * compressedSpeed * launchStrength, release.speed * 100)]

launchOf(release, cfg) ==
  IF release.speed > 0
  THEN launch(release, compressSpeed(release.speed, cfg.flickS0, cfg.flickVmax),
              cfg.launchStrength)
  ELSE [x |-> 0, y |-> 0]

flickFromRaw(raw, cfg) == launchOf(cappedRelease(raw, length(raw)), cfg)

flickFromSums(sums, n, cfg) ==
  IF sums.totalDt > 0 THEN flickFromRaw(averageRate(sums, n), cfg)
  ELSE [x |-> 0, y |-> 0]

\* if (flickHistory.length >= 2) { ... }
flickOf(flickHistory, cfg) ==
  IF Len(flickHistory) >= 2
  THEN flickFromSums(flickSums(flickHistory, 2), Len(flickHistory), cfg)
  ELSE [x |-> 0, y |-> 0]

\* launch velocity of finishCreation before mass resistance: the flick
\* velocity, capped, compressed and scaled by launchStrength
flickVelocity(cursorHistory, now, cfg) ==
  IF Len(cursorHistory) >= 2
  THEN flickOf(SelectSeq(cursorHistory,
                         LAMBDA p : p.time > now - cfg.flickWindowMs), cfg)
  ELSE [x |-> 0, y |-> 0]

\* the scene's largest mass, or maxMass when there are no stars
currentMaxMass(stars, cfg) ==
  IF Len(stars) > 0 THEN maxMassOf(stars, 1) ELSE cfg.maxMass

\* mass = minMass + (currentMaxMass - minMass) * eased
massOf(maxMass, holdDuration, cfg) ==
  cfg.minMass
  + RDiv((maxMass - cfg.minMass) * eased(holdDuration, cfg.holdToMaxSeconds),
         1000)

\* massResistance = 1 - (mass / currentMaxMass) * massResistanceFactor, in
\* thousandths
massResistance(mass, maxMass, cfg) ==
  1000 - RDiv(mass * cfg.massResistanceFactor * 10, maxMass)

\* vx *= massResistance; vy *= massResistance
resisted(v, resistance) ==
  [x |-> RDiv(v.x * resistance, 1000), y |-> RDiv(v.y * resistance, 1000)]

\* an angular guidance that is applied a second time to its own result
guidedTwice(position, stars, v, orbitalCenter, cfg) ==
  IF cfg.angularGuidanceStrength > 0 /\ Len(stars) > 0 /\ orbitalCenter.found
  THEN rotateVelocityTowardTangential(
         position, orbitalCenter.center,
         rotateVelocityTowardTangential(position, orbitalCenter.center, v,
                                        cfg.angularGuidanceStrength),
         cfg.angularGuidanceStrength)
  ELSE v

\* angular guidance toward the orbital center, when there is one
guided(position, stars, v, orbitalCenter, cfg) ==
  IF cfg.angularGuidanceStrength > 0 /\ Len(stars) > 0 /\ orbitalCenter.found
  THEN rotateVelocityTowardTangential(position, orbitalCenter.center, v,
                                      cfg.angularGuidanceStrength)
  ELSE v

launchVelocity(position, stars, cfg, mass, maxMass, flick) ==
  guided(position, stars,
         resisted(flick, massResistance(mass, maxMass, cfg)),
         findOrbitalCenter(position, stars, cfg.orbitalCenterSearchRadius,
                           cfg.enableBoundaryWrapping),
         cfg)

starAt(position, mass, v, cfg) ==
  NewStar(position.x, position.y, mass, v.x, v.y, cfg.radiusScale)

createdWithMass(position, stars, cfg, mass, maxMass, flick) ==
  starAt(position, mass,
         launchVelocity(position, stars, cfg, mass, maxMass, flick), cfg)

createdWithMaxMass(position, stars, cfg, maxMass, holdDuration, flick) ==
  createdWithMass(position, stars, cfg, massOf(maxMass, holdDuration, cfg),
                  maxMass, flick)

\* the star finishCreation creates (the gesture is in progress)
createdStar(stars, cfg, creationX, creationY, creationStartTime, cursorHistory, now) ==
  createdWithMaxMass([x |-> creationX, y |-> creationY], stars, cfg,
                     currentMaxMass(stars, cfg), now - creationStartTime,
                     flickVelocity(cursorHistory, now, cfg))

\* the velocity finishCreation has computed when it reaches the guidance
\* block: the flick velocity scaled by the mass resistance
launchedWithMaxMass(cfg, maxMass, holdDuration, flick) ==
  resisted(flick, massResistance(massOf(maxMass, holdDuration, cfg), maxMass, cfg))

launchedVelocity(stars, cfg, creationStartTime, cursorHistory, now) ==
  launchedWithMaxMass(cfg, currentMaxMass(stars, cfg), now - creationStartTime,
                      flickVelocity(cursorHistory, now, cfg))

\* gesture positions (px) and clock advances (ms) the model draws from
StartPoints == {[x |-> 18, y |-> 30]}
MovePoints == {[x |-> 28, y |-> 34]}
ClockSteps == {30, 2500}

\* ------------------------------------------------------------------------
\* State of a GravitySimulation
\* ------------------------------------------------------------------------
VARIABLES
  stars,              \* this.stars
  config,             \* this.config
  isCreating,         \* this.isCreating
  creationX,          \* this.creationX
  creationY,          \* this.creationY
  creationStartTime,  \* this.creationStartTime (ms)
  cursorHistory,      \* this.cursorHistory
  timeAccumulator,    \* this.timeAccumulator (a double, in seconds)
  energyStats,        \* this.energyStats, as a sequence of 0 (null) or 1
  now,                \* performance.now() (ms)
  stepLog,            \* history: records of the steps of the last update call
  lastCall,           \* history: the last call and what it returned
  gesture,            \* history: a startCreation was accepted and has not
                      \* since been finished, cancelled or cleared
  steps,              \* history: number of fixed steps executed so far
  gestures,           \* history: number of startCreation calls so far
  ticks,              \* history: number of clock advances so far
  twinStars,          \* a second world: its stars
  twinAccumulator,    \* a second world: its timeAccumulator
  twinCalls,          \* a second world: number of update calls made on it
  twinSteps,          \* a second world: number of fixed steps it executed
  mergeIn,            \* the two stars handed to mergeWith
  mergeOut,           \* the star mergeWith returned, as a sequence of 0 or 1
  guideIn,            \* the arguments of a rotateVelocityTowardTangential call
  guideOut,           \* the velocity it returned, as a sequence of 0 or 1
  population,         \* GeneticAlgorithm.population
  generation,         \* GeneticAlgorithm.generation
  parameters,         \* GeneticAlgorithm.parameters
  rangeExpansions,    \* GeneticAlgorithm.rangeExpansions: generationsAtBoundary
                      \* per gene and boundary (0: no entry, or an entry at 0)
  clamps,             \* GeneticAlgorithm.clamps; its {min, max} objects are
                      \* those of GENOME_CLAMPS (shallow copy), so this is
                      \* also what GENOME_CLAMPS holds
  evalIndex,          \* a pending evaluatePopulation: the index its loop
                      \* resumes at (0: no pass is pending)
  gaCall,             \* history: the last call on the GeneticAlgorithm
  evolveLog,          \* history: the elites and the clamps of each evolve()
                      \* call made on this GeneticAlgorithm object
  sampling,           \* evaluateUniverse: its loop counter step, the time
                      \* effectiveDt it passes to update (ms), and its
                      \* positions array, each entry with (history) the index
                      \* in sim.stars and the step it was sampled at
  loop                \* the auto-evolution effect of the evolution lab page:
                      \* isRunning, whether a setTimeout(runCycle) is
                      \* pending, whether runCycle is suspended in its await
                      \* and (history) the evalIndex at which it was stopped

simVars == << stars, config, isCreating, creationX, creationY,
              creationStartTime, cursorHistory, timeAccumulator, energyStats >>
histVars == << stepLog, lastCall, gesture, steps, gestures, ticks >>
twinVars == << twinStars, twinAccumulator, twinCalls, twinSteps >>
mergeVars == << mergeIn, mergeOut >>
guideVars == << guideIn, guideOut >>
gaVars == << population, generation, parameters, rangeExpansions, clamps,
            evalIndex, gaCall, evolveLog, loop >>
moreVars == << guideVars, gaVars >>
auxVars == << twinVars, mergeVars, moreVars, sampling >>
vars == << simVars, now, histVars, auxVars >>

\* no auto-evolution effect is active
NoLoop == [isRunning |-> FALSE, timer |-> FALSE, awaiting |-> FALSE, stoppedAt |-> 0]

\* no evaluateUniverse is running
NoSampling == [step |-> 0, effectiveDt |-> 0, positions |-> << >>]

\* no GeneticAlgorithm has been constructed
NoGA ==
  /\ loop = NoLoop
  /\ sampling = NoSampling
  /\ population = << >>
  /\ generation = 0
  /\ parameters = << >>
  /\ rangeExpansions = << >>
  /\ clamps = << >>
  /\ evalIndex = 0
  /\ gaCall = << >>
  /\ evolveLog = << >>

\* the variables of the calls and objects outside the simulation, unused
MoreInit ==
  /\ guideIn = << >>
  /\ guideOut = << >>
  /\ NoGA

\* the variables of the second world and of the merge call, unused
AuxInit ==
  /\ MoreInit
  /\ twinStars = << >>
  /\ twinAccumulator = Zero
  /\ twinCalls = 0
  /\ twinSteps = 0
  /\ mergeIn = << >>
  /\ mergeOut = << >>

Call(op, returned, countBefore) ==
  [op |-> op, returned |-> returned, countBefore |-> countBefore]

\* constructor(width, height, config) followed by an optional loadUniverse
Init ==
  /\ stars \in InitStars
  /\ config \in InitConfigs
  /\ isCreating = FALSE
  /\ creationX = 0
  /\ creationY = 0
  /\ creationStartTime = 0
  /\ cursorHistory = << >>
  /\ timeAccumulator = Zero
  /\ energyStats = << >>
  /\ now = 0
  /\ stepLog = << >>
  /\ lastCall = Call("constructor", FALSE, 0)
  /\ gesture = FALSE
  /\ steps = 0
  /\ gestures = 0
  /\ ticks = 0
  /\ AuxInit

\* time passes between two calls of a gesture (the program reads the clock
\* only to take differences with times recorded during the gesture)
Tick(d) ==
  /\ isCreating
  /\ ticks < MaxTicks
  /\ now' = now + d
  /\ ticks' = ticks + 1
  /\ UNCHANGED << simVars, stepLog, lastCall, gesture, steps, gestures >>
  /\ UNCHANGED auxVars

\* an updateConfig that stores the configuration as passed
updateConfigAsPassed(cfg) == cfg

\* updateConfig(config): the configuration the simulation holds afterwards
updateConfig(cfg) ==
  IF cfg.physicsMode = ORBIT_PLAYGROUND
  THEN [cfg EXCEPT !.velocityDamping = 0]
  ELSE cfg

UpdateConfig(ch) ==
  /\ config' = updateConfig([config EXCEPT
                               !.physicsMode = ch.physicsMode,
                               !.velocityDamping = ch.velocityDamping,
                               !.maxForceMagnitude = ch.maxForceMagnitude])
  /\ stepLog' = << >>
  /\ lastCall' = [op |-> "updateConfig", returned |-> FALSE,
                  countBefore |-> Len(stars), passed |-> ch]
  /\ UNCHANGED << stars, isCreating, creationX, creationY, creationStartTime,
                  cursorHistory, timeAccumulator, now, gesture, steps,
                  gestures, ticks >>
  /\ UNCHANGED energyStats
  /\ UNCHANGED auxVars

\* a startCreation that refuses only above maxStars (">" in place of ">=")
startCreationPastLimit(x, y) ==
  IF Len(stars) > config.maxStars
  THEN UNCHANGED << isCreating, creationX, creationY, creationStartTime,
                    cursorHistory >>
  ELSE /\ isCreating' = TRUE
       /\ creationX' = x
       /\ creationY' = y
       /\ creationStartTime' = now
       /\ cursorHistory' = << [x |-> x, y |-> y, time |-> now] >>

\* startCreation(x, y)
startCreation(x, y) ==
  IF Len(stars) >= config.maxStars
  THEN UNCHANGED << isCreating, creationX, creationY, creationStartTime,
                    cursorHistory >>
  ELSE /\ isCreating' = TRUE
       /\ creationX' = x
       /\ creationY' = y
       /\ creationStartTime' = now
       /\ cursorHistory' = << [x |-> x, y |-> y, time |-> now] >>

StartCreation(p) ==
  /\ gestures < MaxGestures
  /\ startCreation(p.x, p.y)
  /\ gesture' = (gesture \/ Len(stars) < config.maxStars)
  /\ gestures' = gestures + 1
  /\ stepLog' = << >>
  /\ lastCall' = Call("startCreation", FALSE, Len(stars))
  /\ UNCHANGED << stars, config, timeAccumulator, now, steps, ticks >>
  /\ UNCHANGED energyStats
  /\ UNCHANGED auxVars

\* updateCreation(x, y)
updateCreation(x, y) ==
  IF ~isCreating
  THEN UNCHANGED << creationX, creationY, cursorHistory >>
  ELSE /\ creationX' = x
       /\ creationY' = y
       /\ cursorHistory' =
            SelectSeq(Append(cursorHistory, [x |-> x, y |-> y, time |-> now]),
                      LAMBDA point : point.time > now - config.flickWindowMs)

UpdateCreation(p) ==
  /\ Len(cursorHistory) < MaxHistory
  /\ updateCreation(p.x, p.y)
  /\ stepLog' = << >>
  /\ lastCall' = Call("updateCreation", FALSE, Len(stars))
  /\ UNCHANGED << stars, config, isCreating, creationStartTime,
                  timeAccumulator, now, gesture, steps, gestures, ticks >>
  /\ UNCHANGED energyStats
  /\ UNCHANGED auxVars

\* finishCreation(): Star | null
finishCreation ==
  IF ~isCreating
  THEN UNCHANGED << stars, isCreating, cursorHistory >>
  ELSE /\ stars' = Append(stars, createdStar(stars, config, creationX, creationY,
                                             creationStartTime, cursorHistory, now))
       /\ isCreating' = FALSE
       /\ cursorHistory' = << >>

FinishCreation ==
  /\ finishCreation
  /\ lastCall' = [op |-> "finishCreation", returned |-> isCreating,
                  countBefore |-> Len(stars), gestureBefore |-> gesture,
                  starsBefore |-> stars,
                  launched |-> IF isCreating
                               THEN launchedVelocity(stars, config,
                                                     creationStartTime,
                                                     cursorHistory, now)
                               ELSE [x |-> 0, y |-> 0]]
  /\ gesture' = FALSE
  /\ stepLog' = << >>
  /\ UNCHANGED << config, creationX, creationY, creationStartTime,
                  timeAccumulator, now, steps, gestures, ticks >>
  /\ UNCHANGED energyStats
  /\ UNCHANGED auxVars

\* a cancelCreation that empties the cursor history only
cancelCreationKeepingGesture ==
  /\ UNCHANGED isCreating
  /\ cursorHistory' = << >>

\* cancelCreation()
cancelCreation ==
  /\ isCreating' = FALSE
  /\ cursorHistory' = << >>

CancelCreation ==
  /\ cancelCreation
  /\ lastCall' = Call("cancelCreation", FALSE, Len(stars))
  /\ gesture' = FALSE
  /\ stepLog' = << >>
  /\ UNCHANGED << stars, config, creationX, creationY, creationStartTime,
                  timeAccumulator, now, steps, gestures, ticks >>
  /\ UNCHANGED energyStats
  /\ UNCHANGED auxVars

\* clearAllStars()
clearAllStars ==
  /\ stars' = << >>
  /\ isCreating' = FALSE
  /\ cursorHistory' = << >>
  /\ energyStats' = << >>

ClearAllStars ==
  /\ clearAllStars
  /\ lastCall' = Call("clearAllStars", FALSE, Len(stars))
  /\ gesture' = FALSE
  /\ stepLog' = << >>
  /\ UNCHANGED << config, creationX, creationY, creationStartTime,
                  timeAccumulator, now, steps, gestures, ticks >>
  /\ UNCHANGED auxVars

\* update(deltaTime) on a world (deltaTime in milliseconds):
\* timeAccumulator += deltaTime, then the loop
updateWorld(world, accumulator, deltaTime, cfg) ==
  runSteps(world, plus(accumulator, seconds(deltaTime)), cfg, << >>)

\* the fields update leaves: the stars, the accumulator, the step records,
\* and the energy diagnostics (tracked in each step, then sampled once)
updated(run) ==
  /\ stars' = run.stars
  /\ timeAccumulator' = run.timeAccumulator
  /\ stepLog' = run.log
  /\ energyStats' = updateEnergyStats(trackedThrough(energyStats, run.log, 1),
                                      run.stars, config)

\* update(deltaTime)
update(deltaTime) ==
  updated(updateWorld(stars, timeAccumulator, deltaTime, config))

\* the call record of an update
updateCall(deltaTime) ==
  [op |-> "update", returned |-> FALSE, countBefore |-> Len(stars),
   accumulatorBefore |-> timeAccumulator, deltaTime |-> deltaTime]

\* update(deltaTime) and the history it leaves
Updating(deltaTime) ==
  /\ update(deltaTime)
  /\ steps' = steps + Len(stepLog')
  /\ lastCall' = updateCall(deltaTime)
  /\ UNCHANGED << config, isCreating, creationX, creationY, creationStartTime,
                  cursorHistory, now, gesture, gestures, ticks >>
  /\ UNCHANGED auxVars

Update(deltaTime) ==
  /\ steps + stepsDue(plus(timeAccumulator, seconds(deltaTime))) <= MaxSteps
  /\ Updating(deltaTime)

\* the world under its clock: update calls, configuration changes, clearing
Next ==
  \/ \E ch \in ConfigChanges : UpdateConfig(ch)
  \/ \E deltaTime \in DeltaTimes : Update(deltaTime)
  \/ ClearAllStars

Spec == Init /\ [][Next]_vars

\* the world under a user's gestures, with the configuration it was built with
NextCreation ==
  \/ \E d \in ClockSteps : Tick(d)
  \/ \E p \in StartPoints : StartCreation(p)
  \/ \E p \in MovePoints : UpdateCreation(p)
  \/ FinishCreation
  \/ CancelCreation
  \/ ClearAllStars
  \/ (steps < MaxGestureSteps /\ Update(fixedDt))

\* worlds a gesture starts in: no more stars than maxStars allows
CreationConfigs ==
  {BaseConfig,
   [BaseConfig EXCEPT !.maxStars = 1, !.angularGuidanceStrength = 0],
   \* a minimum mass above the masses on screen, full mass resistance
   [BaseConfig EXCEPT !.minMass = 20, !.maxMass = 40, !.massResistanceFactor = 100]}

CreationStars ==
  {<< >>,
   << S(20, 20, 16, 200, 0), S(30, 20, 16, -100, 0) >>}

InitCreation ==
  /\ stars \in CreationStars
  /\ config \in CreationConfigs
  /\ Len(stars) <= config.maxStars
  /\ isCreating = FALSE
  /\ creationX = 0
  /\ creationY = 0
  /\ creationStartTime = 0
  /\ cursorHistory = << >>
  /\ timeAccumulator = Zero
  /\ energyStats = << >>
  /\ now = 0
  /\ stepLog = << >>
  /\ lastCall = Call("constructor", FALSE, 0)
  /\ gesture = FALSE
  /\ steps = 0
  /\ gestures = 0
  /\ ticks = 0
  /\ AuxInit

SpecCreation == InitCreation /\ [][NextCreation]_vars

\* ------------------------------------------------------------------------
\* Two worlds built alike: one advanced by a single update(0.1), the other
\* by ten update(0.01)
\* ------------------------------------------------------------------------
\* update(0.1): ten fixed steps' worth of time in one call
BigDelta == 10 * fixedDt
\* update(0.01)
SmallDelta == fixedDt
\* the number of small calls that pass the same time as the one big call
SmallCalls == BigDelta \div SmallDelta

InitTwin ==
  /\ stars \in InitStars
  /\ config \in InitConfigs
  /\ isCreating = FALSE
  /\ creationX = 0
  /\ creationY = 0
  /\ creationStartTime = 0
  /\ cursorHistory = << >>
  /\ timeAccumulator = Zero
  /\ energyStats = << >>
  /\ now = 0
  /\ stepLog = << >>
  /\ lastCall = Call("constructor", FALSE, 0)
  /\ gesture = FALSE
  /\ steps = 0
  /\ gestures = 0
  /\ ticks = 0
  /\ twinStars = stars
  /\ twinAccumulator = Zero
  /\ twinCalls = 0
  /\ twinSteps = 0
  /\ mergeIn = << >>
  /\ mergeOut = << >>
  /\ MoreInit

\* the first world: update(0.1), once
BigUpdate ==
  /\ lastCall.op = "constructor"
  /\ update(BigDelta)
  /\ steps' = steps + Len(stepLog')
  /\ lastCall' = updateCall(BigDelta)
  /\ UNCHANGED << config, isCreating, creationX, creationY, creationStartTime,
                  cursorHistory, now, gesture, gestures, ticks >>
  /\ UNCHANGED << twinVars, mergeVars, moreVars, sampling >>

\* the fields update leaves in the second world
twinUpdated(run) ==
  /\ twinStars' = run.stars
  /\ twinAccumulator' = run.timeAccumulator
  /\ twinSteps' = twinSteps + Len(run.log)

\* the second world: update(0.01), ten times
SmallUpdate ==
  /\ twinCalls < SmallCalls
  /\ twinUpdated(updateWorld(twinStars, twinAccumulator, SmallDelta, config))
  /\ twinCalls' = twinCalls + 1
  /\ UNCHANGED << simVars, now, histVars, mergeVars, moreVars, sampling >>

NextTwin == BigUpdate \/ SmallUpdate

SpecTwin == InitTwin /\ [][NextTwin]_vars

\* ------------------------------------------------------------------------
\* Star.mergeWith called on two stars
\* ------------------------------------------------------------------------
MergeMasses == {10, 20, 30}
MergeVelocities == {[x |-> 5, y |-> 0], [x |-> -1, y |-> 3], [x |-> 7, y |-> -4]}
MergePlaces == {[x |-> 2, y |-> 60], [x |-> 62, y |-> 3]}

MergeStars ==
  {NewStar(p.x, p.y, m, v.x, v.y, 2) :
     p \in MergePlaces, m \in MergeMasses, v \in MergeVelocities}

InitMerge ==
  /\ stars = << >>
  /\ config = BaseConfig
  /\ isCreating = FALSE
  /\ creationX = 0
  /\ creationY = 0
  /\ creationStartTime = 0
  /\ cursorHistory = << >>
  /\ timeAccumulator = Zero
  /\ energyStats = << >>
  /\ now = 0
  /\ stepLog = << >>
  /\ lastCall = Call("constructor", FALSE, 0)
  /\ gesture = FALSE
  /\ steps = 0
  /\ gestures = 0
  /\ ticks = 0
  /\ twinStars = << >>
  /\ twinAccumulator = Zero
  /\ twinCalls = 0
  /\ twinSteps = 0
  /\ mergeIn \in {<< a, b >> : a \in MergeStars, b \in MergeStars}
  /\ mergeOut = << >>
  /\ MoreInit

\* mergeIn[1].mergeWith(mergeIn[2], width, height, enableWrapping)
MergeCall(enableWrapping) ==
  /\ mergeOut = << >>
  /\ mergeOut' = << mergeWith(mergeIn[1], mergeIn[2], enableWrapping) >>
  /\ UNCHANGED << simVars, now, histVars, twinVars, mergeIn, moreVars, sampling >>

NextMerge == \E enableWrapping \in BOOLEAN : MergeCall(enableWrapping)

SpecMerge == InitMerge /\ [][NextMerge]_vars

\* ------------------------------------------------------------------------
\* rotateVelocityTowardTangential as a function of its arguments
\* ------------------------------------------------------------------------
\* positions and centres (px), velocities (px/s), strengths (percent of 1)
GuidePositions == {[x |-> 18, y |-> 30], [x |-> 40, y |-> 7]}
GuideCenters == {[x |-> 18, y |-> 30], [x |-> 25, y |-> 20], [x |-> 60, y |-> 50]}
GuideVelocities ==
  {[x |-> 0, y |-> 0], [x |-> 1, y |-> 0], [x |-> 2, y |-> -1],
   [x |-> 300, y |-> 0], [x |-> 0, y |-> -450], [x |-> -120, y |-> 90],
   [x |-> 333, y |-> 421], [x |-> -700, y |-> -700], [x |-> 37, y |-> -5]}
GuideStrengths == {0, 1, 35, 50, 99, 100}

InitGuidance ==
  /\ stars = << >>
  /\ config = BaseConfig
  /\ isCreating = FALSE
  /\ creationX = 0
  /\ creationY = 0
  /\ creationStartTime = 0
  /\ cursorHistory = << >>
  /\ timeAccumulator = Zero
  /\ energyStats = << >>
  /\ now = 0
  /\ stepLog = << >>
  /\ lastCall = Call("constructor", FALSE, 0)
  /\ gesture = FALSE
  /\ steps = 0
  /\ gestures = 0
  /\ ticks = 0
  /\ twinStars = << >>
  /\ twinAccumulator = Zero
  /\ twinCalls = 0
  /\ twinSteps = 0
  /\ mergeIn = << >>
  /\ mergeOut = << >>
  /\ guideIn \in [position : GuidePositions, center : GuideCenters,
                   velocity : GuideVelocities, guidanceStrength : GuideStrengths]
  /\ guideOut = << >>
  /\ NoGA

\* rotateVelocityTowardTangential(position, center, velocity, guidanceStrength)
GuideCall ==
  /\ guideOut = << >>
  /\ guideOut' = << rotateVelocityTowardTangential(
                      guideIn.position, guideIn.center, guideIn.velocity,
                      guideIn.guidanceStrength) >>
  /\ UNCHANGED << simVars, now, histVars, twinVars, mergeVars, guideIn, gaVars,
                  sampling >>

NextGuidance == GuideCall

SpecGuidance == InitGuidance /\ [][NextGuidance]_vars

\* ------------------------------------------------------------------------
\* GeneticAlgorithm and GenomeDecoder (lib/evolution)
\* ------------------------------------------------------------------------
\* Two of the fifteen genes, one in log space and one linear; every gene is
\* treated alike by the code.  Gene values and bounds are in thousandths,
\* rates, strengths and Math.random() values in percent.
Genes == {"log10G", "angularGuidanceStrength"}

GENOME_CLAMPS ==
  [g \in Genes |-> IF g = "log10G" THEN [min |-> 3699, max |-> 4699]
                   ELSE [min |-> 0, max |-> 1000]]

\* the parameters a GeneticAlgorithm is constructed with
GAParameterSets ==
  {[populationSize |-> 2, eliteCount |-> 1, mutationRate |-> 10,
    mutationStrength |-> 10, enableRangeExpansion |-> TRUE]}

\* the same value for every gene
AllGenes(v) == [g \in Genes |-> v]

\* one value for the log-space gene, another for the linear gene
PerGene(log, linear) == [g \in Genes |-> IF g = "log10G" THEN log ELSE linear]

\* values of Math.random() (percent) the model draws from.  In mutate the
\* first value is compared with mutationRate and the second gives the noise.
Unmutated == [rate |-> 50, noise |-> 50]
Lowered == [rate |-> 5, noise |-> 0]
Raised == [rate |-> 5, noise |-> 90]
RandomDraws == {AllGenes(0), AllGenes(50), PerGene(99, 0)}
CrossoverDraws == {AllGenes(25), PerGene(25, 75)}
MutationDraws == {AllGenes(Unmutated), AllGenes(Lowered), PerGene(Unmutated, Raised)}
TournamentDraws == {<< 99, 0, 99 >>, << 99, 99, 99 >>}
ParentDraws == {0, 99}

\* the random values one child of evolve() is made from
ChildDraws ==
  [first : TournamentDraws, second : TournamentDraws,
   coins : CrossoverDraws, mutations : MutationDraws]

\* the random values one child of breedFromSelection() is made from
BredChildDraws ==
  {[first |-> 0, second |-> 99, coins |-> PerGene(25, 75),
    mutations |-> AllGenes(Unmutated)],
   [first |-> 99, second |-> 0, coins |-> AllGenes(25),
    mutations |-> AllGenes(Lowered)],
   [first |-> 99, second |-> 99, coins |-> AllGenes(75),
    mutations |-> PerGene(Unmutated, Raised)]}

\* fitness values evaluateFitness returns (Math.max(0, fitness)), and the
\* outcome "evaluateFitness throws"
Fitnesses == {0, 1}
Throws == -2

\* tournamentSelect(3); generationsAtBoundary >= 2; range * 0.02;
\* clamp.min -= 1.0
TournamentSize == 3
BoundaryGenerations == 2
NearPercent == 2
RangeStep == 1000

\* a clamp that lets every value through
clampNothing(value, min, max) == value

\* clamp = (value, min, max) => Math.max(min, Math.min(max, value))
clamp(value, min, max) ==
  IF value > max THEN (IF max < min THEN min ELSE max)
  ELSE IF value < min THEN min ELSE value

\* a genome: its genes, and its fitness (None: undefined)
Genome(genes) == [genes |-> genes, fitness |-> None]

\* GenomeDecoder.random(), from one Math.random() value per gene
random(draws) ==
  Genome([g \in Genes |->
            clamp(RDiv(draws[g] * (GENOME_CLAMPS[g].max - GENOME_CLAMPS[g].min), 100)
                    + GENOME_CLAMPS[g].min,
                  GENOME_CLAMPS[g].min, GENOME_CLAMPS[g].max)])

\* (genome.fitness || 0)
fitnessOr0(g) == IF g.fitness = None THEN 0 ELSE g.fitness

RECURSIVE insertByFitness(_, _, _)
\* g placed after the genomes of sorted[k..] that are at least as fit
insertByFitness(sorted, g, k) ==
  IF k > Len(sorted) THEN Append(sorted, g)
  ELSE IF fitnessOr0(sorted[k]) >= fitnessOr0(g)
  THEN insertByFitness(sorted, g, k + 1)
  ELSE SubSeq(sorted, 1, k - 1) \o << g >> \o SubSeq(sorted, k, Len(sorted))

RECURSIVE sortedInto(_, _, _)
sortedInto(sorted, pop, i) ==
  IF i > Len(pop) THEN sorted
  ELSE sortedInto(insertByFitness(sorted, pop[i], 1), pop, i + 1)

\* sortPopulation(): population.sort((a, b) => (b.fitness || 0) - (a.fitness || 0)),
\* a stable sort
sortPopulation(pop) == sortedInto(<< >>, pop, 1)

\* Math.floor(Math.random() * length), as an index from 1
indexDrawn(draw, count) == (draw * count) \div 100 + 1

\* tournamentSelect(tournamentSize), from the Math.random() values drawn
tournamentSelect(pop, draws) ==
  sortPopulation([k \in 1..TournamentSize |->
                    pop[indexDrawn(draws[k], Len(pop))]])[1]

\* GenomeDecoder.crossover(parent1, parent2): Math.random() < 0.5 ? a : b
crossover(parent1, parent2, draws) ==
  Genome([g \in Genes |-> IF draws[g] < 50 THEN parent1.genes[g]
                          ELSE parent2.genes[g]])

\* mutateLog / mutateLinear (the same code) on one gene
mutateGene(value, draw, range, params) ==
  IF draw.rate < params.mutationRate
  THEN clamp(value + RDiv((draw.noise - 50) * params.mutationStrength
                            * (range.max - range.min), 10000),
             range.min, range.max)
  ELSE value

\* GenomeDecoder.mutate(genome, mutationRate, mutationStrength); ranges is
\* what GENOME_CLAMPS holds when it is called
mutate(genome, draws, ranges, params) ==
  Genome([g \in Genes |-> mutateGene(genome.genes[g], draws[g], ranges[g], params)])

\* applyClamps(genome)
applyClamps(genome, ranges) ==
  [genome EXCEPT !.genes = [g \in Genes |->
                              clamp(genome.genes[g], ranges[g].min, ranges[g].max)]]

\* crossover, mutate, applyClamps: a child of two parents
childOf(parent1, parent2, coins, mutations, ranges, params) ==
  applyClamps(mutate(crossover(parent1, parent2, coins), mutations, ranges, params),
              ranges)

\* body of the while loop of evolve()
evolvedChild(pop, draw, ranges, params) ==
  childOf(tournamentSelect(pop, draw.first), tournamentSelect(pop, draw.second),
          draw.coins, draw.mutations, ranges, params)

\* body of the for loop of breedFromSelection()
bredChild(parents, draw, ranges, params) ==
  childOf(parents[indexDrawn(draw.first, Len(parents))],
          parents[indexDrawn(draw.second, Len(parents))],
          draw.coins, draw.mutations, ranges, params)

\* elites.some(g => value <= clamp.min + range * 0.02)
nearMin(elites, g, range) ==
  \E i \in 1..Len(elites) :
    elites[i].genes[g] * 100 <= range.min * 100 + (range.max - range.min) * NearPercent

\* elites.some(g => value >= clamp.max - range * 0.02)
nearMax(elites, g, range) ==
  \E i \in 1..Len(elites) :
    elites[i].genes[g] * 100 >= range.max * 100 - (range.max - range.min) * NearPercent

\* a threshold of one generation at the boundary
widensAtOnce(count) == count >= 1

\* if (exp.generationsAtBoundary >= 2)
widens(count) == count >= BoundaryGenerations

\* the min boundary of one gene: the range and the counter afterwards
checkedMin(range, count, near) ==
  IF near /\ widens(count + 1)
  THEN [range |-> [range EXCEPT !.min = @ - RangeStep], count |-> 0]
  ELSE [range |-> range, count |-> IF near THEN count + 1 ELSE 0]

\* the max boundary of one gene
checkedMax(range, count, near) ==
  IF near /\ widens(count + 1)
  THEN [range |-> [range EXCEPT !.max = @ + RangeStep], count |-> 0]
  ELSE [range |-> range, count |-> IF near THEN count + 1 ELSE 0]

\* the max boundary is checked with the range the min check has left
checkedAfterMin(lower, counts, elites, g) ==
  [lower |-> lower,
   upper |-> checkedMax(lower.range, counts.max, nearMax(elites, g, lower.range))]

\* body of the loop over the genes in checkRangeExpansion
checkedGene(range, counts, elites, g) ==
  checkedAfterMin(checkedMin(range, counts.min, nearMin(elites, g, range)),
                  counts, elites, g)

\* checkRangeExpansion() on the sorted population: the clamps and the
\* rangeExpansions it leaves
checkRangeExpansion(elites, ranges, expansions, params) ==
  IF ~params.enableRangeExpansion
  THEN [clamps |-> ranges, rangeExpansions |-> expansions]
  ELSE [clamps |->
          [g \in Genes |-> checkedGene(ranges[g], expansions[g], elites, g).upper.range],
        rangeExpansions |->
          [g \in Genes |->
             [min |-> checkedGene(ranges[g], expansions[g], elites, g).lower.count,
              max |-> checkedGene(ranges[g], expansions[g], elites, g).upper.count]]]

\* elites without their fitness
elitesUnscored(sorted, params) ==
  [i \in 1..params.eliteCount |-> [sorted[i] EXCEPT !.fitness = None]]

\* for (i < eliteCount) newPopulation.push({ ...this.population[i] })
elitesOf(sorted, params) == SubSeq(sorted, 1, params.eliteCount)

\* one child more than the population has room for
childrenNeededAndOne(params) == params.populationSize - params.eliteCount + 1

\* iterations of while (newPopulation.length < populationSize)
childrenNeeded(params) ==
  IF params.populationSize > params.eliteCount
  THEN params.populationSize - params.eliteCount ELSE 0

\* no rangeExpansions entry
NoExpansions == [g \in Genes |-> [min |-> 0, max |-> 0]]

\* new GeneticAlgorithm(parameters); initialize()
Initialized ==
  /\ stars = << >>
  /\ config = BaseConfig
  /\ isCreating = FALSE
  /\ creationX = 0
  /\ creationY = 0
  /\ creationStartTime = 0
  /\ cursorHistory = << >>
  /\ timeAccumulator = Zero
  /\ energyStats = << >>
  /\ now = 0
  /\ stepLog = << >>
  /\ lastCall = Call("constructor", FALSE, 0)
  /\ gesture = FALSE
  /\ steps = 0
  /\ gestures = 0
  /\ ticks = 0
  /\ twinStars = << >>
  /\ twinAccumulator = Zero
  /\ twinCalls = 0
  /\ twinSteps = 0
  /\ mergeIn = << >>
  /\ mergeOut = << >>
  /\ guideIn = << >>
  /\ guideOut = << >>
  /\ sampling = NoSampling
  /\ parameters \in GAParameterSets
  /\ population \in [1..parameters.populationSize ->
                       {random(draws) : draws \in RandomDraws}]
  /\ generation = 0
  /\ rangeExpansions = NoExpansions
  /\ clamps = GENOME_CLAMPS
  /\ evalIndex = 0
  /\ gaCall = [op |-> "initialize"]
  /\ evolveLog = << >>

InitGA == Initialized /\ loop = NoLoop

notGA == << simVars, now, histVars, twinVars, mergeVars, guideVars, sampling >>

RECURSIVE evaluateFrom(_, _, _, _)
\* the loop of evaluatePopulation from index i until it awaits, ends or
\* evaluateFitness throws; outcomes[k] is what evaluateFitness does next.
\* next: the index the loop resumes at (0: the pass is over);
\* threw: the index at which evaluateFitness threw (0: it did not)
evaluateFrom(pop, i, outcomes, k) ==
  IF i > Len(pop) THEN [population |-> pop, next |-> 0, threw |-> 0]
  ELSE IF outcomes[k] = Throws THEN [population |-> pop, next |-> 0, threw |-> i]
  ELSE IF (i - 1) % 2 = 0
  THEN [population |-> [pop EXCEPT ![i].fitness = outcomes[k]],
        next |-> i + 1, threw |-> 0]
  ELSE evaluateFrom([pop EXCEPT ![i].fitness = outcomes[k]], i + 1, outcomes, k + 1)

evaluationLeaves(from, run) ==
  /\ population' = run.population
  /\ evalIndex' = run.next
  /\ gaCall' = [op |-> "evaluatePopulation", from |-> from, threw |-> run.threw]
  /\ UNCHANGED << generation, parameters, rangeExpansions, clamps, evolveLog >>
  /\ UNCHANGED notGA

\* number of genomes the loop evaluates from index i before it awaits or ends
chunkSize(i, count) ==
  IF (i - 1) % 2 = 0 \/ i = count THEN 1 ELSE 2

\* what evaluateFitness can do on each genome of one such run
Outcomes(i, count) == [1..chunkSize(i, count) -> Fitnesses \cup {Throws}]

\* evaluatePopulation(), up to its first await
EvaluatePopulation(outcomes) ==
  /\ evalIndex = 0
  /\ evaluationLeaves(1, evaluateFrom(population, 1, outcomes, 1))
  /\ UNCHANGED loop

\* a pending evaluatePopulation resumes after its await
ResumeEvaluation(outcomes) ==
  /\ evalIndex > 0
  /\ evaluationLeaves(evalIndex, evaluateFrom(population, evalIndex, outcomes, 1))
  /\ UNCHANGED loop

\* getBestGenome(): sorts the population in place
GetBestGenome ==
  /\ population' = sortPopulation(population)
  /\ gaCall' = [op |-> "getBestGenome"]
  /\ UNCHANGED << generation, parameters, rangeExpansions, clamps, evalIndex,
                  evolveLog, loop >>
  /\ UNCHANGED notGA

\* the population evolve() builds: the elites, then the children
newPopulation(sorted, elites, checked, draws) ==
  elites \o [k \in 1..childrenNeeded(parameters) |->
              evolvedChild(sorted, draws[k], checked.clamps, parameters)]

\* evolve() once the population is sorted and the ranges are checked
evolved(sorted, elites, checked, draws) ==
  /\ population' = newPopulation(sorted, elites, checked, draws)
  /\ clamps' = checked.clamps
  /\ rangeExpansions' = checked.rangeExpansions
  /\ generation' = generation + 1
  /\ evolveLog' = Append(evolveLog,
                         [elites |-> [i \in 1..Len(elites) |-> Genome(elites[i].genes)],
                          before |-> clamps, after |-> checked.clamps])
  /\ gaCall' = [op |-> "evolve", sorted |-> sorted]

evolveSorted(sorted, draws) ==
  evolved(sorted, elitesOf(sorted, parameters),
          checkRangeExpansion(elitesOf(sorted, parameters), clamps,
                              rangeExpansions, parameters), draws)

\* evolve(), with the random values of its children
evolve(draws) == evolveSorted(sortPopulation(population), draws)

Evolve(draws) ==
  /\ generation < MaxGenerations
  /\ evolve(draws)
  /\ UNCHANGED << parameters, evalIndex, loop >>
  /\ UNCHANGED notGA

\* the genomes at the indices passed to setSelectedParents, in that order
\* (selectedParentIndices.map(i => this.population[i]).filter(Boolean))
parentsOf(pop, selected) == [k \in 1..Len(selected) |-> pop[selected[k]]]

\* breedFromSelection(), with the random values of its children
breedFromSelection(selected, draws) ==
  IF Len(selected) < 2 THEN << >>
  ELSE [k \in 1..parameters.populationSize |->
          bredChild(parentsOf(population, selected), draws[k], clamps, parameters)]

\* handleBreed of the evolution lab page: setSelectedParents,
\* breedFromSelection, and the children become the population of a new
\* GeneticAlgorithm one generation on
Breed(selected, draws) ==
  /\ Len(selected) >= 2
  /\ population' = breedFromSelection(selected, draws)
  /\ gaCall' = [op |-> "breedFromSelection"]
  /\ generation' = generation + 1
  /\ rangeExpansions' = NoExpansions
  /\ evolveLog' = << >>
  /\ evalIndex' = 0
  /\ UNCHANGED << parameters, clamps, loop >>
  /\ UNCHANGED notGA

HandleBreed(selected, draws) ==
  /\ generation < MaxGenerations
  /\ Breed(selected, draws)

\* the index lists a user can select for breeding
Selections == {<< 1, 2 >>, << 2, 1 >>}

NextGA ==
  \/ \E outcomes \in Outcomes(1, Len(population)) : EvaluatePopulation(outcomes)
  \/ \E outcomes \in Outcomes(evalIndex, Len(population)) : ResumeEvaluation(outcomes)
  \/ GetBestGenome
  \/ \E draws \in [1..childrenNeeded(parameters) -> ChildDraws] : Evolve(draws)
  \/ \E selected \in Selections :
       \E draws \in [1..parameters.populationSize -> BredChildDraws] :
         HandleBreed(selected, draws)

SpecGA == InitGA /\ [][NextGA]_vars

\* A GeneticAlgorithm that is evolved and bred from without being
\* evaluated; it can still be bred from after its last evolve()
BreedEvolved(selected, draws) ==
  /\ generation <= MaxGenerations
  /\ Breed(selected, draws)

NextBreeding ==
  \/ \E draws \in [1..childrenNeeded(parameters) -> ChildDraws] : Evolve(draws)
  \/ \E selected \in Selections :
       \E draws \in [1..parameters.populationSize -> BredChildDraws] :
         BreedEvolved(selected, draws)

SpecBreeding == InitGA /\ [][NextBreeding]_vars

\* ------------------------------------------------------------------------
\* The auto-evolution loop (evolution-lab/page.tsx, useEffect and runCycle)
\* ------------------------------------------------------------------------
\* the effect has run: isRunning = true, timeoutId = setTimeout(runCycle, 1000)
InitLoop ==
  /\ Initialized
  /\ loop = [isRunning |-> TRUE, timer |-> TRUE, awaiting |-> FALSE, stoppedAt |-> 0]

\* a stop that is ignored: the next cycle is scheduled all the same
scheduledAnyway(lp) == [lp EXCEPT !.awaiting = FALSE, !.timer = TRUE]

\* runCycle after its await: if (!isRunning) return; ...;
\* if (isRunning) timeoutId = setTimeout(runCycle, autoEvolveInterval)
scheduled(lp) == [lp EXCEPT !.awaiting = FALSE, !.timer = lp.isRunning]

\* runCycle once its evaluatePopulation has run to an await (it stays
\* suspended), has thrown (runCycle rejects) or has ended
afterRun(lp, run) ==
  IF run.next > 0 THEN [lp EXCEPT !.awaiting = TRUE, !.timer = FALSE]
  ELSE IF run.threw > 0 THEN [lp EXCEPT !.awaiting = FALSE, !.timer = FALSE]
  ELSE scheduled([lp EXCEPT !.timer = FALSE])

\* ga.getPopulation().some(g => g.fitness !== undefined)
someEvaluated(pop) == \E i \in 1..Len(pop) : pop[i].fitness # None

\* await ga.evaluatePopulation(...) and what follows it in runCycle
cycleEvaluates(from, run) ==
  /\ population' = run.population
  /\ evalIndex' = run.next
  /\ gaCall' = [op |-> "evaluatePopulation", from |-> from, threw |-> run.threw]
  /\ loop' = afterRun(loop, run)

\* ga.evolve(), then await ga.evaluatePopulation(...) on the new generation
cycleEvolves(elites, checked, evolvedPopulation, outcomes) ==
  /\ cycleEvaluates(1, evaluateFrom(evolvedPopulation, 1, outcomes, 1))
  /\ clamps' = checked.clamps
  /\ rangeExpansions' = checked.rangeExpansions
  /\ generation' = generation + 1
  /\ evolveLog' = Append(evolveLog,
                         [elites |-> [i \in 1..Len(elites) |-> Genome(elites[i].genes)],
                          before |-> clamps, after |-> checked.clamps])

cycleEvolvesWith(sorted, elites, checked, draws, outcomes) ==
  cycleEvolves(elites, checked, newPopulation(sorted, elites, checked, draws), outcomes)

cycleEvolvesFrom(sorted, elites, draws, outcomes) ==
  cycleEvolvesWith(sorted, elites,
                   checkRangeExpansion(elites, clamps, rangeExpansions, parameters),
                   draws, outcomes)

\* the timer fires and runCycle runs to its first await: the first cycle
\* evaluates the unevaluated population
RunFirstCycle(outcomes) ==
  /\ loop.timer /\ loop.isRunning
  /\ ~someEvaluated(population)
  /\ cycleEvaluates(1, evaluateFrom(population, 1, outcomes, 1))
  /\ UNCHANGED << generation, parameters, rangeExpansions, clamps, evolveLog >>
  /\ UNCHANGED notGA

\* the timer fires and runCycle runs to its first await: a later cycle
\* evolves and evaluates the new generation
RunCycle(draws, outcomes) ==
  /\ loop.timer /\ loop.isRunning
  /\ someEvaluated(population)
  /\ generation < MaxGenerations
  /\ cycleEvolvesFrom(sortPopulation(population),
                      elitesOf(sortPopulation(population), parameters), draws, outcomes)
  /\ UNCHANGED parameters
  /\ UNCHANGED notGA

\* the evaluatePopulation that runCycle awaits resumes; when it ends,
\* runCycle continues after its await
ResumeCycle(outcomes) ==
  /\ loop.awaiting /\ evalIndex > 0
  /\ cycleEvaluates(evalIndex, evaluateFrom(population, evalIndex, outcomes, 1))
  /\ UNCHANGED << generation, parameters, rangeExpansions, clamps, evolveLog >>
  /\ UNCHANGED notGA

\* the cleanup of the effect: isRunning = false; clearTimeout(timeoutId)
StopLoop ==
  /\ loop.isRunning
  /\ loop' = [loop EXCEPT !.isRunning = FALSE, !.timer = FALSE, !.stoppedAt = evalIndex]
  /\ UNCHANGED << population, generation, parameters, rangeExpansions, clamps,
                  evalIndex, gaCall, evolveLog >>
  /\ UNCHANGED notGA

Resumes == \E outcomes \in Outcomes(evalIndex, Len(population)) : ResumeCycle(outcomes)

NextLoop ==
  \/ \E outcomes \in Outcomes(1, Len(population)) : RunFirstCycle(outcomes)
  \/ \E draws \in [1..childrenNeeded(parameters) -> ChildDraws] :
       \E outcomes \in Outcomes(1, Len(population)) : RunCycle(draws, outcomes)
  \/ Resumes
  \/ StopLoop

\* the setTimeout(resolve, 0) that evaluatePopulation awaits always fires
SpecLoop == InitLoop /\ [][NextLoop]_vars /\ WF_vars(Resumes)

\* ------------------------------------------------------------------------
\* The sampling loop of a fitness evaluation (evaluateUniverse, star.ts)
\* ------------------------------------------------------------------------
\* the configuration a genome decodes to: N-body mode, no damping, merging
\* enabled, no boundary wrapping
SamplingConfig ==
  [BaseConfig EXCEPT !.physicsMode = N_BODY_CHAOS, !.enableBoundaryWrapping = FALSE]

\* launch velocities of the stars of a sampled universe (px/s)
SampleSpeeds == {-200, 0, 200}

\* sampled universes: empty, one star, two stars that keep apart
SampleStars ==
  {<< >>}
  \cup {<< S(20, 20, 16, vx, vy) >> : vx \in SampleSpeeds, vy \in SampleSpeeds}
  \cup {<< S(20, 20, 16, vx, vy), S(50, 50, 9, vx, vy) >> :
          vx \in SampleSpeeds, vy \in SampleSpeeds}

\* dt * timeAcceleration, in milliseconds
EffectiveDts == {10, 20}

\* Math.max(1, Math.floor(steps / 100))
sampleInterval(count) == IF count \div 100 > 1 THEN count \div 100 ELSE 1

\* for (const star of sim.stars) starPositions.push({ x: star.x, y: star.y })
positionsOf(world, stepIndex) ==
  [i \in 1..Len(world) |-> [x |-> world[i].x, y |-> world[i].y,
                            star |-> i, step |-> stepIndex]]

\* if (step % sampleInterval === 0 && sim.stars.length > 0)
\*   positions.push(...starPositions)
withPositions(positions, world, stepIndex) ==
  IF stepIndex % sampleInterval(SampleSteps) = 0 /\ Len(world) > 0
  THEN positions \o positionsOf(world, stepIndex)
  ELSE positions

InitSampling ==
  /\ stars \in SampleStars
  /\ config = SamplingConfig
  /\ isCreating = FALSE
  /\ creationX = 0
  /\ creationY = 0
  /\ creationStartTime = 0
  /\ cursorHistory = << >>
  /\ timeAccumulator = Zero
  /\ energyStats = << >>
  /\ now = 0
  /\ stepLog = << >>
  /\ lastCall = Call("constructor", FALSE, 0)
  /\ gesture = FALSE
  /\ steps = 0
  /\ gestures = 0
  /\ ticks = 0
  /\ twinStars = << >>
  /\ twinAccumulator = Zero
  /\ twinCalls = 0
  /\ twinSteps = 0
  /\ mergeIn = << >>
  /\ mergeOut = << >>
  /\ guideIn = << >>
  /\ guideOut = << >>
  /\ population = << >>
  /\ generation = 0
  /\ parameters = << >>
  /\ rangeExpansions = << >>
  /\ clamps = << >>
  /\ evalIndex = 0
  /\ gaCall = << >>
  /\ evolveLog = << >>
  /\ loop = NoLoop
  /\ \E effectiveDt \in EffectiveDts :
       sampling = [step |-> 0, effectiveDt |-> effectiveDt, positions |-> << >>]

\* one iteration of the loop: sim.update(effectiveDt), then the sample
SampleStep ==
  /\ sampling.step < SampleSteps
  /\ update(sampling.effectiveDt)
  /\ steps' = steps + Len(stepLog')
  /\ lastCall' = updateCall(sampling.effectiveDt)
  /\ sampling' = [sampling EXCEPT
                    !.step = @ + 1,
                    !.positions = withPositions(@, stars', sampling.step)]
  /\ UNCHANGED << config, isCreating, creationX, creationY, creationStartTime,
                  cursorHistory, now, gesture, gestures, ticks >>
  /\ UNCHANGED << twinVars, mergeVars, moreVars >>

NextSampling == SampleStep

SpecSampling == InitSampling /\ [][NextSampling]_vars

\* ------------------------------------------------------------------------
\* A world advanced frame by frame (GravitySystem.animate, gravity.ts)
\* ------------------------------------------------------------------------
\* deltaTime = Math.min((currentTime - lastTime) / 1000, 0.1): frame
\* durations in milliseconds
FrameTimes == {4, 10, 20, 40}

\* number of fixed steps a world is taken through frame by frame
MaxFrameSteps == 4

\* the worlds the frames advance
FrameStars == {<< >>, << S(20, 20, 16, 200, 0), S(30, 20, 16, -100, 0) >>}

InitFrames ==
  /\ stars \in FrameStars
  /\ config = BaseConfig
  /\ isCreating = FALSE
  /\ creationX = 0
  /\ creationY = 0
  /\ creationStartTime = 0
  /\ cursorHistory = << >>
  /\ timeAccumulator = Zero
  /\ energyStats = << >>
  /\ now = 0
  /\ stepLog = << >>
  /\ lastCall = Call("constructor", FALSE, 0)
  /\ gesture = FALSE
  /\ steps = 0
  /\ gestures = 0
  /\ ticks = 0
  /\ AuxInit

\* one frame of animate(): this.simulation.update(deltaTime)
Animate(deltaTime) ==
  /\ steps + stepsDue(plus(timeAccumulator, seconds(deltaTime))) <= MaxFrameSteps
  /\ Updating(deltaTime)

NextFrames == \E deltaTime \in FrameTimes : Animate(deltaTime)

SpecFrames == InitFrames /\ [][NextFrames]_vars

\* ------------------------------------------------------------------------
\* Properties
\* ------------------------------------------------------------------------
\* the records of the steps the last update call executed
StepRecords == {stepLog[k] : k \in 1..Len(stepLog)}

\* C1: within one step, the pass-1 acceleration of every body is the one
\* computed from the positions all bodies had when the step started (no
\* position changes before all pass-1 accelerations are accumulated).
C1_Pass1FromSnapshot ==
  \A rec \in StepRecords :
    \A i \in 1..Len(rec.start) :
      rec.accelerations[i] = acceleration(rec.start, i, rec.config)

MergeRecords == {rec \in StepRecords : Len(rec.pairs) > 0}

RECURSIVE totalMass(_)
totalMass(world) ==
  IF world = << >> THEN 0 ELSE Head(world).mass + totalMass(Tail(world))

\* C3: after updateConfig selects ORBIT_PLAYGROUND the configuration's
\* velocityDamping is 0 whatever was passed, it stays 0 until the next
\* updateConfig, and every step taken in that mode leaves the stars as a
\* step without damping leaves them.
C3_NoDampingInOrbitMode ==
  /\ [](/\ (lastCall.op = "updateConfig" /\ config.physicsMode = ORBIT_PLAYGROUND)
             => config.velocityDamping = 0
        /\ \A rec \in StepRecords :
             rec.config.physicsMode = ORBIT_PLAYGROUND =>
               rec.result =
                 step(rec.start, fixedDt,
                      [rec.config EXCEPT !.velocityDamping = 0]).result)
  /\ [][(/\ config.physicsMode = ORBIT_PLAYGROUND
         /\ config.velocityDamping = 0
         /\ lastCall'.op # "updateConfig") => config'.velocityDamping = 0]_vars

\* updateConfig was passed ORBIT_PLAYGROUND with a damping of 10 percent
C3_Witness ==
  /\ lastCall.op = "updateConfig"
  /\ lastCall.passed.physicsMode = ORBIT_PLAYGROUND
  /\ lastCall.passed.velocityDamping > 0
  /\ config.physicsMode = ORBIT_PLAYGROUND

\* C4: after updateConfig selects ORBIT_PLAYGROUND the configuration's
\* maxForceMagnitude is 0, whatever cap was passed.
C4_NoForceCapInOrbitMode ==
  (lastCall.op = "updateConfig" /\ config.physicsMode = ORBIT_PLAYGROUND)
    => config.maxForceMagnitude = 0

\* C5: in one step's merge resolution no star index is in two merged pairs,
\* every pair is two different stars of the array the scan started from, and
\* the merged stars are appended as they were made, after the stars kept.
C5_AtMostOneMergePerStar ==
  \A rec \in StepRecords :
    LET n == Len(rec.pairs)
        kept == Len(rec.result) - n
    IN /\ \A k \in 1..n :
            /\ rec.pairs[k][1] # rec.pairs[k][2]
            /\ {rec.pairs[k][1], rec.pairs[k][2]} \subseteq 1..Len(rec.integrated)
       /\ \A k, l \in 1..n :
            k # l => {rec.pairs[k][1], rec.pairs[k][2]}
                       \cap {rec.pairs[l][1], rec.pairs[l][2]} = {}
       /\ Len(rec.toAdd) = n
       /\ Len(rec.result) = Len(rec.integrated) - n
       /\ \A k \in 1..n : rec.result[kept + k] = rec.toAdd[k]

\* a step merged one pair of three stars although the third star touched one
\* of the pair and touches the merged star
C5_Witness ==
  \E rec \in MergeRecords :
    /\ Len(rec.integrated) = 3
    /\ Len(rec.pairs) = 1
    /\ \E k \in 1..3 :
         /\ k \notin {rec.pairs[1][1], rec.pairs[1][2]}
         /\ \/ touching(rec.integrated[k], rec.integrated[rec.pairs[1][1]], rec.config)
            \/ touching(rec.integrated[k], rec.integrated[rec.pairs[1][2]], rec.config)
    /\ touching(rec.result[1], rec.result[2], rec.config)

\* C6: with mergeStopMass configured, no star of mass mergeStopMass or more
\* is one of a merged pair in any step.
C6_HeavyStarsDoNotMerge ==
  \A rec \in StepRecords :
    rec.config.mergeStopMass # None =>
      \A k \in 1..Len(rec.pairs) :
        /\ rec.integrated[rec.pairs[k][1]].mass < rec.config.mergeStopMass
        /\ rec.integrated[rec.pairs[k][2]].mass < rec.config.mergeStopMass

\* C7: every merged star has the mass of its two parents together, and the
\* masses of all stars add up to the same total before and after each step.
C7_MassConserved ==
  \A rec \in StepRecords :
    /\ \A k \in 1..Len(rec.pairs) :
         rec.toAdd[k].mass = rec.integrated[rec.pairs[k][1]].mass
                               + rec.integrated[rec.pairs[k][2]].mass
    /\ totalMass(rec.result) = totalMass(rec.start)

\* a step merged two stars into one
C7_Witness ==
  \E rec \in MergeRecords :
    /\ Len(rec.result) < Len(rec.start)
    /\ totalMass(rec.start) > 0

\* the two stars of the example: m1 = 10, v1 = (5, 0); m2 = 20, v2 = (-1, 3)
MergeExample ==
  /\ mergeIn[1].mass = 10 /\ mergeIn[1].vx = 5 /\ mergeIn[1].vy = 0
  /\ mergeIn[2].mass = 20 /\ mergeIn[2].vx = -1 /\ mergeIn[2].vy = 3

\* the merged star's momentum is the parents' momentum, to the nearest
\* velocity the model represents
MomentumConserved ==
  LET a == mergeIn[1]
      b == mergeIn[2]
      m == mergeOut[1]
  IN /\ m.mass = a.mass + b.mass
     /\ 2 * Abs(m.mass * m.vx - (a.mass * a.vx + b.mass * b.vx)) <= m.mass
     /\ 2 * Abs(m.mass * m.vy - (a.mass * a.vy + b.mass * b.vy)) <= m.mass

\* C8 as stated: the merged velocity is the mass-weighted mean, and the
\* example merges to (1/3, 2).
C8_MergedVelocityAsStated ==
  mergeOut # << >> =>
    /\ MomentumConserved
    /\ MergeExample => (3 * mergeOut[1].vx = 1 /\ mergeOut[1].vy = 2)

\* C8: the merged velocity is the mass-weighted mean of the parents'
\* velocities, and the example merges to (1, 2).
C8_MergedVelocity ==
  mergeOut # << >> =>
    /\ MomentumConserved
    /\ MergeExample => (mergeOut[1].vx = 1 /\ mergeOut[1].vy = 2)

\* the example's two stars have been merged
C8_Witness ==
  /\ mergeOut # << >>
  /\ MergeExample
  /\ mergeOut[1].mass = 30

\* C9: the star count never exceeds maxStars; a gesture is only in progress
\* below maxStars; startCreation at or above maxStars starts no gesture and
\* the finishCreation that follows adds no star.
C9_CountNeverExceedsMaxStars ==
  /\ Len(stars) <= config.maxStars
  /\ isCreating => Len(stars) < config.maxStars
  /\ (lastCall.op = "startCreation" /\ lastCall.countBefore >= config.maxStars)
       => ~isCreating
  /\ (lastCall.op = "finishCreation" /\ lastCall.countBefore >= config.maxStars)
       => stars = lastCall.starsBefore

\* startCreation was called on a full world and started nothing
C9_Witness ==
  /\ lastCall.op = "startCreation"
  /\ lastCall.countBefore >= config.maxStars
  /\ Len(stars) = config.maxStars
  /\ ~isCreating

\* C10: finishCreation returns a star and appends exactly that one star iff
\* a gesture is in progress, otherwise it returns nothing and leaves the
\* stars alone; after finishCreation, cancelCreation or clearAllStars no
\* gesture is in progress.
C10_FinishIffGesture ==
  /\ isCreating <=> gesture
  /\ lastCall.op = "finishCreation" =>
       /\ lastCall.returned <=> lastCall.gestureBefore
       /\ lastCall.returned =>
            /\ Len(stars) = Len(lastCall.starsBefore) + 1
            /\ SubSeq(stars, 1, Len(lastCall.starsBefore)) = lastCall.starsBefore
       /\ ~lastCall.returned => stars = lastCall.starsBefore
  /\ lastCall.op \in {"finishCreation", "cancelCreation", "clearAllStars"}
       => ~isCreating

\* finishCreation ended a gesture and returned the star it appended
C10_Witness ==
  /\ lastCall.op = "finishCreation"
  /\ lastCall.returned
  /\ Len(stars) = lastCall.countBefore + 1
  /\ ~isCreating

\* the velocity of a star
velocityOf(s) == [x |-> s.vx, y |-> s.vy]

\* the launch velocity v after one application of the guidance, for a body
\* created at position among the bodies world
guidedOnce(position, world, v, cfg) ==
  IF cfg.angularGuidanceStrength > 0 /\ Len(world) > 0
     /\ findOrbitalCenter(position, world, cfg.orbitalCenterSearchRadius,
                          cfg.enableBoundaryWrapping).found
  THEN rotateVelocityTowardTangential(
         position,
         findOrbitalCenter(position, world, cfg.orbitalCenterSearchRadius,
                           cfg.enableBoundaryWrapping).center,
         v, cfg.angularGuidanceStrength)
  ELSE v

\* C11: launch guidance is applied at most once to a body, inside
\* finishCreation when the body is created: the new body's velocity is its
\* launch velocity guided once and the existing bodies are left as they
\* were; every step of an update is the guidance-free Verlet step with its
\* merges; and no other operation changes any body.
C11_GuidanceOnlyAtCreation ==
  /\ []((lastCall.op = "finishCreation" /\ lastCall.returned) =>
          /\ Len(stars) = Len(lastCall.starsBefore) + 1
          /\ SubSeq(stars, 1, Len(lastCall.starsBefore)) = lastCall.starsBefore
          /\ velocityOf(stars[Len(stars)])
               = guidedOnce([x |-> creationX, y |-> creationY],
                            lastCall.starsBefore, lastCall.launched, config))
  /\ [](lastCall.op = "update" =>
          \A rec \in StepRecords :
            rec.result = mergeStep(pass2(pass1(rec.start, 1, fixedDt, rec.config,
                                               << >>).stars,
                                         1, fixedDt, rec.config),
                                   rec.config).stars)
  /\ [][stars' # stars =>
          lastCall'.op \in {"finishCreation", "update", "clearAllStars"}]_vars

\* finishCreation created a body among existing ones and the guidance turned
\* its launch velocity
C11_Witness ==
  /\ lastCall.op = "finishCreation"
  /\ lastCall.returned
  /\ lastCall.countBefore > 0
  /\ config.angularGuidanceStrength > 0
  /\ velocityOf(stars[Len(stars)]) # lastCall.launched

\* the second half-kick of star s with the acceleration a
secondHalfWith(s, dt, a, cfg) ==
  updateVelocityVerletSecondHalf(s, dt, a.ax, a.ay, cfg)

\* star i after a second half-kick whose acceleration is computed from the
\* positions of the array drifted, taken as a whole
secondHalfFrom(drifted, i, dt, cfg) ==
  secondHalfWith(drifted[i], dt, acceleration(drifted, i, cfg), cfg)

\* the array pass 1 of a recorded step left: every first half-kick and drift done
driftedOf(rec) == pass1(rec.start, 1, fixedDt, rec.config, << >>).stars

\* the stars of rec.integrated are those of drifted after such a half-kick
pass2FromDrifted(rec, drifted) ==
  /\ Len(rec.integrated) = Len(drifted)
  /\ \A i \in 1..Len(drifted) :
       rec.integrated[i] = secondHalfFrom(drifted, i, fixedDt, rec.config)

\* C20: within one step, the second half-kick of every body uses the
\* acceleration recomputed from the positions all bodies have after all
\* first-pass drifts; no pass-1 acceleration is reused and pass 2 is never
\* skipped.
C20_Pass2FromNewPositions ==
  \A rec \in StepRecords : pass2FromDrifted(rec, driftedOf(rec))

\* some body's recomputed acceleration differs from the one of pass 1
recomputedDiffers(rec, drifted) ==
  \E i \in 1..Len(drifted) :
    /\ acceleration(drifted, i, rec.config) # rec.accelerations[i]
    /\ velocityOf(rec.integrated[i]) # velocityOf(drifted[i])

\* a step of two or more bodies in which pass 2 used an acceleration other
\* than the one of pass 1 and changed a velocity
C20_Witness ==
  \E rec \in StepRecords :
    /\ Len(rec.start) >= 2
    /\ recomputedDiffers(rec, driftedOf(rec))

\* resolution of a speed in the model: velocities are whole px/s and unit
\* vectors whole thousandths, so a guided speed is exact to this many px/s (rounding)
SpeedResolution == 1

\* C19: for any velocity, position, centre and strength in [0, 1] the guided
\* velocity has the magnitude of the input velocity (to the resolution of
\* the model's numbers), and with strength 0 the guided velocity is the
\* input velocity.
C19_GuidancePreservesSpeed ==
  guideOut # << >> =>
    /\ Abs(length(guideOut[1]) - length(guideIn.velocity)) <= SpeedResolution
    /\ guideIn.guidanceStrength = 0 => guideOut[1] = guideIn.velocity

\* a call with a positive strength, away from the centre, that turned a
\* moving body's velocity
C19_Witness ==
  /\ guideOut # << >>
  /\ guideIn.guidanceStrength > 0
  /\ guideIn.position # guideIn.center
  /\ length(guideIn.velocity) > 0
  /\ guideOut[1] # guideIn.velocity

\* C18: integratorDrift accumulates only the energy change of the
\* integration between merges, each interval's change exactly once; while
\* no merge has been recorded, integratorDrift is the current total energy
\* minus the first sampled total energy.
C18_DriftIsEnergyChange ==
  (energyStats # << >> /\ energyStats[1].mergeEvents = << >>) =>
    energyStats[1].integratorDrift
      = energyStats[1].total - energyStats[1].history[1]

\* C12: evolve() never selects or crosses over while a genome of the
\* current population lacks a fitness value: at every call of evolve()
\* every genome of the population it sorts and selects from has a fitness.
C12_EvolveOnlyWhenScored ==
  gaCall.op = "evolve" =>
    \A i \in 1..Len(gaCall.sorted) : gaCall.sorted[i].fitness # None

\* C13: when evaluateFitness throws for one genome, evaluatePopulation gives
\* that genome the fitness 0 and goes on with the remaining genomes: the
\* pass is still under way or has scored every genome after it.
C13_FailedGenomeScoresZero ==
  (gaCall.op = "evaluatePopulation" /\ gaCall.threw # 0) =>
    /\ population[gaCall.threw].fitness = 0
    /\ \/ evalIndex > 0
       \/ \A i \in gaCall.threw..Len(population) : population[i].fitness # None

\* getBestGenome() without the sort: the fitness of the best genome
bestFitness(pop) == fitnessOr0(sortPopulation(pop)[1])

\* C14: with eliteCount >= 1, right after evolve() the first eliteCount
\* genomes of the new population are the top eliteCount genomes of the
\* previous one, every gene value and the fitness unchanged, and the best
\* fitness of the new population is not below that of the previous one.
C14_ElitismKeepsBest ==
  (gaCall.op = "evolve" /\ parameters.eliteCount >= 1) =>
    /\ \A i \in 1..parameters.eliteCount : population[i] = gaCall.sorted[i]
    /\ bestFitness(population) >= bestFitness(gaCall.sorted)

\* evolve() on a population whose genomes had different fitness values:
\* the best one leads the new population with its fitness
C14_Witness ==
  /\ gaCall.op = "evolve"
  /\ \E i \in 1..Len(gaCall.sorted) : gaCall.sorted[i].fitness = 0
  /\ gaCall.sorted[1].fitness > 0
  /\ population[1].fitness = gaCall.sorted[1].fitness

\* the gene of a genome lies within the range
withinClamp(genome, g, range) ==
  range.min <= genome.genes[g] /\ genome.genes[g] <= range.max

\* C15: after initialize() and any sequence of evolve() and
\* breedFromSelection() calls every gene of every genome of the population
\* (bred children included) lies within the gene's current [min, max],
\* also once ranges have been expanded.
C15_GenesWithinClamps ==
  \A i \in 1..Len(population) : \A g \in Genes :
    withinClamp(population[i], g, clamps[g])

\* a range has been expanded and a genome made since holds a value outside
\* the declared range, within the expanded one
C15_Witness ==
  \E i \in 1..Len(population) : \E g \in Genes :
    /\ clamps[g] # GENOME_CLAMPS[g]
    /\ ~withinClamp(population[i], g, GENOME_CLAMPS[g])
    /\ withinClamp(population[i], g, clamps[g])

\* C16: after initialize() and after every evolve() the population holds
\* exactly populationSize genomes.
C16_PopulationSizeFixed ==
  gaCall.op \in {"initialize", "evolve"} =>
    Len(population) = parameters.populationSize

\* a second evolve() in a row has bred children and the size is kept
C16_Witness ==
  /\ gaCall.op = "evolve"
  /\ Len(evolveLog) >= 2
  /\ childrenNeeded(parameters) >= 1
  /\ Len(population) = parameters.populationSize

\* at the k-th evolve() of this object some elite was near the min bound
nearMinAt(k, g) == nearMin(evolveLog[k].elites, g, evolveLog[k].before[g])

\* the k-th evolve() moved the min bound
widenedMinAt(k, g) == evolveLog[k].after[g].min # evolveLog[k].before[g].min

\* the range the max bound is judged with: the one the min check has left
rangeForMax(k, g) ==
  [evolveLog[k].before[g] EXCEPT !.min = evolveLog[k].after[g].min]

nearMaxAt(k, g) == nearMax(evolveLog[k].elites, g, rangeForMax(k, g))

widenedMaxAt(k, g) == evolveLog[k].after[g].max # evolveLog[k].before[g].max

\* near the min bound at this call and at the call before, which has not
\* itself widened the bound (and so reset the count)
dueMin(k, g) ==
  k >= 2 /\ nearMinAt(k, g) /\ nearMinAt(k - 1, g) /\ ~widenedMinAt(k - 1, g)

dueMax(k, g) ==
  k >= 2 /\ nearMaxAt(k, g) /\ nearMaxAt(k - 1, g) /\ ~widenedMaxAt(k - 1, g)

\* the count a boundary is left with by the k-th evolve()
countLeft(near, widened) == IF near /\ ~widened THEN 1 ELSE 0

\* C17: with range expansion enabled, an evolve() call widens the min (max)
\* bound of a gene exactly when some elite is within 2% of the current range
\* from that bound at this call and was at the call before, the count not
\* having been reset by a widening then; the bound moves by 1.0 (one order
\* of magnitude in log space, the same step for linear genes); the count is
\* 0 after a widening and after a call with no elite near the bound.
C17_WidenedAfterTwoNear ==
  \A g \in Genes :
    /\ \A k \in 1..Len(evolveLog) :
         /\ widenedMinAt(k, g) <=> dueMin(k, g)
         /\ widenedMinAt(k, g) =>
              evolveLog[k].after[g].min = evolveLog[k].before[g].min - RangeStep
         /\ widenedMaxAt(k, g) <=> dueMax(k, g)
         /\ widenedMaxAt(k, g) =>
              evolveLog[k].after[g].max = evolveLog[k].before[g].max + RangeStep
    /\ evolveLog # << >> =>
         /\ rangeExpansions[g].min
              = countLeft(nearMinAt(Len(evolveLog), g), widenedMinAt(Len(evolveLog), g))
         /\ rangeExpansions[g].max
              = countLeft(nearMaxAt(Len(evolveLog), g), widenedMaxAt(Len(evolveLog), g))

\* the second evolve() in a row with an elite near a bound has widened the
\* bound by the step and left the count at 0, while another bound of the
\* same object, near only at this call, stays and counts 1
C17_Witness ==
  /\ Len(evolveLog) >= 2
  /\ \E g \in Genes :
       \/ widenedMinAt(Len(evolveLog), g) /\ rangeExpansions[g].min = 0
       \/ widenedMaxAt(Len(evolveLog), g) /\ rangeExpansions[g].max = 0
  /\ \E g \in Genes :
       \/ rangeExpansions[g].min = 1
       \/ rangeExpansions[g].max = 1

\* C21: after every update(deltaTime) call the time accumulator holds a
\* value in [0, fixedDt), and the number of fixed steps the call executed
\* is floor((accumulator before the call + deltaTime) / fixedDt).
C21_StepsAreWholeQuotient ==
  lastCall.op = "update" =>
    /\ ~atLeast(timeAccumulator, fixedStep)
    /\ Len(stepLog)
         = wholeQuotient(exactPlus(lastCall.accumulatorBefore,
                                   seconds(lastCall.deltaTime)), fixedStep)

\* vx = vxHalf and vy = vyHalf
synced(s) == s.vx = s.vxHalf /\ s.vy = s.vyHalf

\* C22: after every completed step each body's velocity equals its
\* half-step velocity, and a newly created or merged body starts with its
\* velocity equal to its half-step velocity.
C22_VelocitySynced ==
  /\ \A rec \in StepRecords :
       /\ \A i \in 1..Len(rec.integrated) : synced(rec.integrated[i])
       /\ \A i \in 1..Len(rec.toAdd) : synced(rec.toAdd[i])
       /\ \A i \in 1..Len(rec.result) : synced(rec.result[i])
  /\ (lastCall.op = "finishCreation" /\ lastCall.returned) =>
       synced(stars[Len(stars)])
  /\ \A i \in 1..Len(stars) : synced(stars[i])

\* a step over a world that holds a created body: pass 2 changed a
\* velocity and two bodies merged
C22_Witness ==
  /\ lastCall.op = "update"
  /\ gestures >= 1
  /\ \E rec \in StepRecords :
       /\ Len(rec.start) = 3
       /\ rec.toAdd # << >>
       /\ \E i \in 1..Len(rec.integrated) : rec.integrated[i].vx # rec.start[i].vx

\* 0 <= x < width and 0 <= y < height
inBounds(s) == 0 <= s.x /\ s.x < width /\ 0 <= s.y /\ s.y < height

\* C23: with boundary wrapping enabled, after every step every body's
\* position satisfies 0 <= x < width and 0 <= y < height, bodies produced
\* by a merge in that step included.
C23_PositionsWrapped ==
  \A rec \in StepRecords :
    rec.config.enableBoundaryWrapping =>
      /\ \A i \in 1..Len(rec.toAdd) : inBounds(rec.toAdd[i])
      /\ \A i \in 1..Len(rec.result) : inBounds(rec.result[i])

\* the drift of a step took a body across an edge and the wrapping brought
\* it back in on the other side, and two bodies on opposite sides of an
\* edge merged
C23_Witness ==
  \E rec \in StepRecords :
    /\ rec.config.enableBoundaryWrapping
    /\ \E i \in 1..Len(rec.integrated) :
         /\ ~inBounds(drift(kick(rec.start[i], fixedDt, rec.accelerations[i].ax,
                                 rec.accelerations[i].ay), fixedDt))
         /\ inBounds(rec.integrated[i])
    /\ \E k \in 1..Len(rec.pairs) :
         2 * Abs(rec.integrated[rec.pairs[k][1]].x
                   - rec.integrated[rec.pairs[k][2]].x) > width

\* d is the minimum image of the raw difference raw along an axis of size
minimumImage(d, raw, size) == 2 * Abs(d) <= size /\ (d - raw) % size = 0

\* the displacement d from a to b follows the boundary policy
followsPolicy(d, a, b, cfg) ==
  IF cfg.enableBoundaryWrapping
  THEN /\ minimumImage(d.x, b.x - a.x, width)
       /\ minimumImage(d.y, b.y - a.y, height)
  ELSE d = [x |-> b.x - a.x, y |-> b.y - a.y]

\* forces and potential energy (separation) and merge detection
\* (distanceTo) see the pair a, b at the same distance, under the policy
samePolicy(a, b, cfg) ==
  /\ followsPolicy(separation(a, b, cfg), a, b, cfg)
  /\ distanceTo(a, b, cfg.enableBoundaryWrapping)
       = softenedDistance(separation(a, b, cfg), 0)

samePolicyAmong(world, cfg) ==
  \A i \in 1..Len(world) : \A j \in 1..Len(world) :
    i # j => samePolicy(world[i], world[j], cfg)

\* C24: for every pair of bodies the displacement used for the forces of
\* both passes, for the potential energy and for merge detection follows
\* the same boundary policy (minimum image per axis when wrapping is
\* enabled, the raw difference otherwise), so all three see the same pair
\* distance.
C24_SameBoundaryPolicy ==
  \A rec \in StepRecords :
    /\ samePolicyAmong(rec.start, rec.config)
    /\ samePolicyAmong(rec.integrated, rec.config)
    /\ samePolicyAmong(rec.result, rec.config)

\* a step with wrapping enabled over two bodies on opposite sides of an
\* edge, nearer across it than within the world
C24_Witness ==
  \E rec \in StepRecords :
    /\ rec.config.enableBoundaryWrapping
    /\ Len(rec.integrated) >= 2
    /\ 2 * Abs(rec.integrated[2].x - rec.integrated[1].x) > width
    /\ separation(rec.integrated[1], rec.integrated[2], rec.config).x
         # rec.integrated[2].x - rec.integrated[1].x

\* the steps of the last update that merged bodies, in order
mergingSteps == SelectSeq(stepLog, LAMBDA rec : rec.pairs # << >>)

\* the merge event that the k-th merging step of the last update pushed
eventOf(k) ==
  energyStats[1].mergeEvents[Len(energyStats[1].mergeEvents) - Len(mergingSteps) + k]

\* the event records the energies around the merge resolution of rec
recordsEnergiesOf(event, rec) ==
  /\ event.energyPreMerge = computeTotalEnergy(rec.integrated, rec.config)
  /\ event.energyPostMerge = computeTotalEnergy(rec.result, rec.config)
  /\ event.deltaEnergy = event.energyPostMerge - event.energyPreMerge

\* C25: every merge event records as preMergeEnergy the total energy of the
\* bodies immediately before that step's merge resolution (after that
\* step's integration), as postMergeEnergy the total energy immediately
\* after it, and delta = postMergeEnergy - preMergeEnergy.
C25_MergeEventEnergies ==
  (lastCall.op = "update" /\ energyStats # << >>) =>
    \A k \in 1..Len(mergingSteps) : recordsEnergiesOf(eventOf(k), mergingSteps[k])

\* every genome of the population has a fitness
allEvaluated == \A i \in 1..Len(population) : population[i].fitness # None

\* C26: once the auto-evolve loop's stop condition is set, the loop performs
\* no further evolve() and schedules no further cycle; the stop is acted on
\* only between generations: it leaves the population and a pass in
\* progress as they are, and a pass in progress when the loop is stopped
\* still runs to its end.
C26_StopBetweenGenerations ==
  /\ [][~loop.isRunning =>
          /\ generation' = generation /\ evolveLog' = evolveLog
          /\ ~loop'.timer /\ ~loop'.isRunning]_vars
  /\ [][(loop.isRunning /\ ~loop'.isRunning) =>
          UNCHANGED << population, evalIndex, generation >>]_vars
  /\ (~loop.isRunning /\ evalIndex > 0)
       ~> (/\ evalIndex = 0 /\ ~loop.awaiting
           /\ gaCall.op = "evaluatePopulation"
           /\ (gaCall.threw = 0 => allEvaluated))

\* the loop was stopped during the evaluation of an evolved generation, and
\* that pass has since run to its end
C26_Witness ==
  /\ ~loop.isRunning /\ loop.stoppedAt > 0
  /\ generation >= 1
  /\ evalIndex = 0 /\ gaCall.op = "evaluatePopulation" /\ gaCall.threw = 0
  /\ allEvaluated
  /\ ~loop.timer

\* C27: a range expansion performed by one GeneticAlgorithm changes only
\* that instance's clamp ranges: GENOME_CLAMPS, and with it the ranges of a
\* GeneticAlgorithm constructed later (the one handleBreed constructs),
\* stay at the declared defaults.
C27_ExpansionStaysLocal ==
  gaCall.op = "breedFromSelection" => clamps = GENOME_CLAMPS

\* GenomeDecoder.decode(genome), the configuration value of the linear gene
\* the model carries: angularGuidanceStrength: genome.angularGuidanceStrength
decode(genome) ==
  [angularGuidanceStrength |-> genome.genes.angularGuidanceStrength]

\* the valid domain of angularGuidanceStrength, [0, 1], which is also its
\* declared clamp range
inDomain(v) ==
  /\ GENOME_CLAMPS.angularGuidanceStrength.min <= v
  /\ v <= GENOME_CLAMPS.angularGuidanceStrength.max

\* C28: after any number of range expansions the clamp range of a linear
\* gene (here angularGuidanceStrength, domain [0, 1]) stays inside the
\* gene's valid domain, so that no genome accepted by the clamps decodes to
\* a configuration value outside that domain.
C28_LinearRangesInDomain ==
  /\ inDomain(clamps.angularGuidanceStrength.min)
  /\ inDomain(clamps.angularGuidanceStrength.max)
  /\ \A i \in 1..Len(population) :
       inDomain(decode(population[i]).angularGuidanceStrength)

\* the massResistance of the finishCreation that has just returned a star,
\* in thousandths (the clock and the configuration are as they were)
resistanceWith(maxMass) ==
  massResistance(massOf(maxMass, now - creationStartTime, config), maxMass, config)

\* C29: at body creation, for a massResistanceFactor in [0, 1], the
\* mass-resistance multiplier applied to the launch velocity is in [0, 1]:
\* it never reverses or amplifies the launch velocity, also when the
\* largest mass on screen is below the configured minimum mass.
C29_ResistanceInUnitRange ==
  (lastCall.op = "finishCreation" /\ lastCall.returned
     /\ 0 <= config.massResistanceFactor /\ config.massResistanceFactor <= 100) =>
    /\ 0 <= resistanceWith(currentMaxMass(lastCall.starsBefore, config))
    /\ resistanceWith(currentMaxMass(lastCall.starsBefore, config)) <= 1000

\* computeOrbitMetrics: the pairs thetas[i - 1], thetas[i] whose unwrapped
\* difference is summed into turns, as the samples they are the angles of
deltaPairs(positions) ==
  [i \in 1..(Len(positions) - 1) |-> << positions[i], positions[i + 1] >>]

\* C30: the sample sequence from which turns is computed consists of
\* successive positions of one and the same body, so every angle delta
\* that is summed is the movement of a single body between two sample
\* times.
C30_TurnsFollowOneBody ==
  \A k \in 1..Len(deltaPairs(sampling.positions)) :
    /\ deltaPairs(sampling.positions)[k][1].star = deltaPairs(sampling.positions)[k][2].star
    /\ deltaPairs(sampling.positions)[k][1].step < deltaPairs(sampling.positions)[k][2].step

\* no star of a sampled universe merges, so that an index in sim.stars
\* denotes the same body throughout
SampledBodiesKeepApart == \A rec \in StepRecords : rec.pairs = << >>

====
